---- MODULE Spec2Model ----
(***************************************************************************)
(* A model of glowbit.py: the GlowBit LED driver library.                  *)
(*                                                                         *)
(* The state is one device object (stick, triangle, matrix4x4, matrix8x8): *)
(* its geometry, its pixel buffer `ar`, its brightness, its rate limiter   *)
(* and what the flush last handed to the LED transport.  Every public      *)
(* method is one action.  The variables `call`, `pre` and `dirty` record   *)
(* the last call (name, arguments, result, fault), the object's fields and *)
(* the transport's frame as they were when that call started, and whether  *)
(* a drawing call was made since the last flush, so that the effect of a   *)
(* call can be stated as a predicate on one state.                         *)
(*                                                                         *)
(* Attribute lookup follows MicroPython, the library's first platform:     *)
(* self.__pixelsShowPico and self.__syncWait name the glowbit methods.     *)
(* Brightness and rate limits are integers; colours are non-negative       *)
(* integers.                                                               *)
(***************************************************************************)
EXTENDS Integers, Sequences, FiniteSets, TLC

VARIABLES
    kind,           \* the device class: "stick", "rainbow", "triangle", "matrix4x4", "matrix8x8"
    platform,       \* _SYSNAME: "rp2" (MicroPython, PIO backend) or "Linux" (rpi_ws281x)
    tiles,          \* matrix4x4.tiles
    tileRows,       \* matrix8x8.tileRows
    tileCols,       \* matrix8x8.tileCols
    numLEDs,        \* self.numLEDs
    numLEDsX,       \* self.numLEDsX (matrix devices)
    numLEDsY,       \* self.numLEDsY (matrix devices)
    ar,             \* self.ar: the pixel buffer, index -> packed colour
    dimmer_ar,      \* self.dimmer_ar: the brightness-scaled copy (rp2 backend)
    brightness,     \* self.brightness
    rateLimit,      \* self.rateLimit
    lastFrame_ms,   \* self.lastFrame_ms
    now,            \* the monotonic clock read by self.ticks_ms()
    sent,           \* the frame last handed to the transport, in the order handed
    pushAt,         \* clock value at the last transport push (-1: none yet)
    prevPushAt,     \* clock value at the push before that (-1: none)
    inputs,         \* the arguments drawn for a check of the pure colour functions
    call,           \* the last call: [name, args, ret, fault]
    dirty,          \* a drawing call was made since the last flush
    pre,            \* the object's fields when the last call started
    steps,          \* calls made on the device; pixelsFill and updatePulses are not counted
    graph,          \* the graph object the caller holds (graph1D / graph2D), or NoGraph
    pulses,         \* stick.pulses: the list of pulse objects
    scroll          \* matrix8x8: scrollingTextList, updateText, update, scrollingText

geometry == <<kind, platform, tiles, tileRows, tileCols, numLEDs, numLEDsX, numLEDsY>>
buffer   == <<ar, dimmer_ar, brightness>>
limiter  == <<rateLimit, lastFrame_ms, now>>
wire     == <<sent, pushAt, prevPushAt>>
history  == <<inputs, call, dirty, pre, steps>>
overlays == <<graph, pulses, scroll>>
vars     == <<geometry, buffer, limiter, wire, history, overlays>>

(***************************************************************************)
(* Integer bit operations on non-negative integers, as Python computes     *)
(* them.                                                                   *)
(***************************************************************************)
RECURSIVE BitAnd(_, _)
BitAnd(a, b) ==
    IF a = 0 \/ b = 0 THEN 0
    ELSE (a % 2) * (b % 2) + 2 * BitAnd(a \div 2, b \div 2)

RECURSIVE BitOr(_, _)
BitOr(a, b) ==
    IF a = 0 THEN b
    ELSE IF b = 0 THEN a
    ELSE (IF a % 2 = 1 \/ b % 2 = 1 THEN 1 ELSE 0) + 2 * BitOr(a \div 2, b \div 2)

Shl(a, n) == a * (2 ^ n)

Shr(a, n) == a \div (2 ^ n)

(***************************************************************************)
(* colourFunctions                                                         *)
(***************************************************************************)
\* The mutant's last segment runs from red to blue instead of from blue to red.
wheelLastSegmentReversed(pos) ==
    LET p == pos % 255
    IN  IF p < 85 THEN BitOr(Shl(255 - p * 3, 16), Shl(p * 3, 8))
        ELSE IF p < 170 THEN BitOr(Shl(255 - (p - 85) * 3, 8), (p - 85) * 3)
        ELSE BitOr(Shl(255 - (p - 170) * 3, 16), (p - 170) * 3)

wheel(pos) ==
    LET p == pos % 255
    IN  IF p < 85 THEN BitOr(Shl(255 - p * 3, 16), Shl(p * 3, 8))
        ELSE IF p < 170 THEN BitOr(Shl(255 - (p - 85) * 3, 8), (p - 85) * 3)
        ELSE BitOr(Shl((p - 170) * 3, 16), 255 - (p - 170) * 3)

\* The mutant packs green and blue into each other's byte.
rgb2GBColourSwapped(r, g, b) == BitOr(BitOr(Shl(r, 16), Shl(b, 8)), g)

rgb2GBColour(r, g, b) == BitOr(BitOr(Shl(r, 16), Shl(g, 8)), b)

\* The red, green and blue fields of a packed colour 0x00RRGGBB
Channels(colour) ==
    << Shr(BitAnd(colour, 16711680), 16),
       Shr(BitAnd(colour, 65280), 8),
       BitAnd(colour, 255) >>

\* glowbitColour2RGB(colour): the return statement of the function closes a
\* parenthesis it never opened, so the function does not compile and no call of
\* it returns a value.
glowbitColour2RGB(colour) == [ret |-> "None", fault |-> "SyntaxError"]

(***************************************************************************)
(* Coordinate remappers                                                    *)
(***************************************************************************)
\* The mutant leaves out the tile's base address.
remap4x4NoTile(x, y) ==
    LET mc == x \div 4
    IN  4 * y + x - 4 * mc

remap4x4(x, y) ==
    LET mc == x \div 4
        TopLeftIndex == mc * 16
        LEDsBefore == 4 * y + x - 4 * mc
    IN  TopLeftIndex + LEDsBefore

\* The mutant walks every tile row left to right.
remap8x8NoSerpentine(x, y) ==
    64 * ((y \div 8) * tileCols + (x \div 8)) + (8 * (y % 8) + (x % 8))

remap8x8(x, y) ==
    IF (y \div 8) % 2 = 0
    THEN 64 * ((y \div 8) * tileCols + (x \div 8)) + (8 * (y % 8) + (x % 8))
    ELSE 64 * ((y \div 8) * tileCols + (tileCols - (x \div 8) - 1)) + (8 * (y % 8) + (x % 8))

\* self.remap, with mapFunction left at None
remap(x, y) == IF kind = "matrix4x4" THEN remap4x4(x, y) ELSE remap8x8(x, y)

IsMatrix == kind \in {"matrix4x4", "matrix8x8"}

\* class rainbow(stick) inherits every method of stick
IsStick == kind \in {"stick", "rainbow"}

(***************************************************************************)
(* The array.array("I") behind self.ar.  Its entries are 32 bits wide; the *)
(* colours drawn here are 24 bits wide and the number of calls is bounded, *)
(* so no entry reaches 2^31 and a store keeps the value it is given.       *)
(***************************************************************************)
\* self.ar[i]: the slot a Python index names, -1 when it raises IndexError
PyIndex(i, n) ==
    IF 0 <= i /\ i < n THEN i
    ELSE IF -n <= i /\ i < 0 THEN i + n
    ELSE -1

(***************************************************************************)
(* Rate limiter and flush                                                  *)
(***************************************************************************)
\* The mutant stamps the frame without waiting.
syncWaitNoWait(t, last, rate, over) == t + over

\* __syncWait entered when the clock reads t: the clock value stored in
\* lastFrame_ms.  `over` is the time between the poll that ends the loop and
\* the read that is stored.
syncWait(t, last, rate, over) ==
    LET due == last + (1000 \div rate)
    IN  (IF t < due THEN due ELSE t) + over

\* The mutant divides by 255 instead of shifting by 8.
dimChannelBy255(c, shift, br) == (BitAnd(Shr(c, shift), 255) * br) \div 255

\* One channel of a buffer entry, scaled by the brightness
dimChannel(c, shift, br) == Shr(BitAnd(Shr(c, shift), 255) * br, 8)

\* The word __pixelsShowPico puts to the state machine: green, red, blue
picoWord(c, br) ==
    BitOr(BitOr(Shl(dimChannel(c, 16, br), 8), Shl(dimChannel(c, 8, br), 16)),
          dimChannel(c, 0, br))

\* The word __pixelsShowRPi sets on the strip: red, green, blue
rpiWord(c, br) ==
    BitOr(BitOr(Shl(dimChannel(c, 16, br), 16), Shl(dimChannel(c, 8, br), 8)),
          dimChannel(c, 0, br))

flushWord(c, br) == IF platform = "rp2" THEN picoWord(c, br) ELSE rpiWord(c, br)

(***************************************************************************)
(* Construction                                                            *)
(***************************************************************************)
LEDsPerTri == 6

\* The mutant keeps whatever rate it is given.
stickRateLimitUnchecked(rateLimitFPS) == rateLimitFPS

stickRateLimit(rateLimitFPS) == IF rateLimitFPS > 0 THEN rateLimitFPS ELSE 100

triangleRateLimit(rateLimitFPS) == IF rateLimitFPS > 0 THEN rateLimitFPS ELSE 100

matrix4x4RateLimit(rateLimitFPS) == IF rateLimitFPS > 0 THEN rateLimitFPS ELSE 100

matrix8x8RateLimit(rateLimitFPS, rateLimitCharactersPerSecond) ==
    IF rateLimitFPS > 0 THEN rateLimitFPS
    ELSE IF rateLimitCharactersPerSecond > 0 THEN rateLimitCharactersPerSecond * 8
    ELSE 30

initRateLimit(k, fps, cps) ==
    CASE k = "stick"     -> stickRateLimit(fps)
      [] k = "rainbow"   -> stickRateLimit(fps)
      [] k = "triangle"  -> triangleRateLimit(fps)
      [] k = "matrix4x4" -> matrix4x4RateLimit(fps)
      [] k = "matrix8x8" -> matrix8x8RateLimit(fps, cps)

initNumLEDs(k, n, rows, cols) ==
    CASE k = "stick"     -> n
      [] k = "rainbow"   -> n
      [] k = "triangle"  -> n * LEDsPerTri
      [] k = "matrix4x4" -> n * 16
      [] k = "matrix8x8" -> rows * cols * 64

\* Flushes made by the constructor: matrix4x4 shows twice, and rainbow shows
\* once in stick.__init__ and once more in drawRainbow.
initFlushes(k) == IF k \in {"matrix4x4", "rainbow"} THEN 2 ELSE 1

\* The colours drawRainbow(offset) writes to a strip of leds pixels
RainbowColours(leds, offset) == [i \in 0..(leds - 1) |-> wheel((offset + 17 * i) % 255)]

\* No graph object has been constructed yet.
NoGraph == [class |-> "none"]

\* The text attributes of a matrix8x8 after construction: updateText and update
\* are not assigned.  The other classes have none of them.
NoText == [list |-> <<>>, updateText |-> "unset", update |-> "unset", scrollingText |-> FALSE]

\* No object: the constructor raised.
NoDevice == "none"

\* The constructor on Linux: binding self.pixelsShow = self.__pixelsShowRPi and
\* self.ticks_ms = self.ticks_ms_Linux raises AttributeError (the methods are
\* glowbit.__pixelsShowRPi and glowbit.__ticks_ms_Linux), so the call returns no
\* object.
InitFailed(plat, fps, cps) ==
    /\ kind = NoDevice
    /\ platform = plat
    /\ tiles = 0
    /\ tileRows = 0
    /\ tileCols = 0
    /\ numLEDs = 0
    /\ numLEDsX = 0
    /\ numLEDsY = 0
    /\ ar = <<>>
    /\ dimmer_ar = <<>>
    /\ brightness = 0
    /\ rateLimit = 0
    /\ lastFrame_ms = 0
    /\ now = 0
    /\ sent = <<>>
    /\ pushAt = -1
    /\ prevPushAt = -1
    /\ call = [name |-> "__init__", args |-> <<fps, cps>>, ret |-> "None",
               fault |-> "AttributeError"]
    /\ dirty = FALSE
    /\ pre = [ar |-> <<>>, brightness |-> 0, rateLimit |-> 0, lastFrame_ms |-> 0,
              sent |-> <<>>, dirty |-> FALSE, pulses |-> <<>>]
    /\ steps = 0
    /\ graph = NoGraph
    /\ pulses = <<>>
    /\ scroll = NoText

\* The state a constructor leaves on rp2.  n is numLEDs (stick), numTris
\* (triangle) or tiles (matrix4x4); the clock reads 0 when the constructor stamps
\* lastFrame_ms, and <<o1, w1>>, <<o2, w2>> are the delays of its flushes.
InitBuilt(k, plat, n, rows, cols, br, fps, cps, o1, w1, o2, w2) ==
    LET rate   == initRateLimit(k, fps, cps)
        leds   == initNumLEDs(k, n, rows, cols)
        stamp1 == syncWait(0, 0, rate, o1)
        push1  == stamp1 + w1
        stamp2 == syncWait(push1, stamp1, rate, o2)
        push2  == stamp2 + w2
        twice  == initFlushes(k) = 2
        blank  == [i \in 0..(leds - 1) |-> 0]
        drawn  == IF k = "rainbow" THEN RainbowColours(leds, 0) ELSE blank
        frame  == [i \in 0..(leds - 1) |-> picoWord(drawn[i], br)]
    IN  /\ kind = k
        /\ platform = plat
        /\ tiles = IF k = "matrix4x4" THEN n ELSE 0
        /\ tileRows = IF k = "matrix8x8" THEN rows ELSE 0
        /\ tileCols = IF k = "matrix8x8" THEN cols ELSE 0
        /\ numLEDs = leds
        /\ numLEDsX = (CASE k = "matrix4x4" -> n * 4 [] k = "matrix8x8" -> cols * 8 [] OTHER -> 0)
        /\ numLEDsY = (CASE k = "matrix4x4" -> 4 [] k = "matrix8x8" -> rows * 8 [] OTHER -> 0)
        /\ ar = drawn
        /\ dimmer_ar = frame
        /\ brightness = br
        /\ rateLimit = rate
        /\ lastFrame_ms = IF twice THEN stamp2 ELSE stamp1
        /\ now = IF twice THEN push2 ELSE push1
        /\ sent = frame
        /\ pushAt = IF twice THEN push2 ELSE push1
        /\ prevPushAt = IF twice THEN push1 ELSE -1
        /\ call = [name |-> "__init__", args |-> <<fps, cps>>, ret |-> "None", fault |-> "none"]
        /\ dirty = FALSE
        /\ pre = [ar |-> blank, brightness |-> br, rateLimit |-> rate,
                  lastFrame_ms |-> 0, sent |-> blank, dirty |-> FALSE,
                  pulses |-> <<>>]
        /\ steps = 0
        /\ graph = NoGraph
        /\ pulses = <<>>
        /\ scroll = NoText

\* A constructor call: stick, rainbow, triangle, matrix4x4 or matrix8x8
InitDevice(k, plat, n, rows, cols, br, fps, cps, o1, w1, o2, w2) ==
    IF plat = "Linux" THEN InitFailed(plat, fps, cps)
    ELSE InitBuilt(k, plat, n, rows, cols, br, fps, cps, o1, w1, o2, w2)

(***************************************************************************)
(* Calls                                                                   *)
(***************************************************************************)
\* What a call of a pure function leaves in the history variables.
Pure(name, args, ret) ==
    /\ call' = [name |-> name, args |-> args, ret |-> ret, fault |-> "none"]
    /\ UNCHANGED <<geometry, buffer, limiter, wire, inputs, dirty, pre, steps, overlays>>

\* The calls that write neither the pixel buffer nor the brightness.
NotDrawing == {"elapse", "updateRateLimitFPS", "updateRateLimitCharactersPerSecond"}

\* What every call of a method leaves in the history variables; a method is
\* called on an object.
LogCall(name, args, ret, fault) ==
    /\ kind # NoDevice
    /\ call' = [name |-> name, args |-> args, ret |-> ret, fault |-> fault]
    /\ pre' = [ar |-> ar, brightness |-> brightness, rateLimit |-> rateLimit,
               lastFrame_ms |-> lastFrame_ms, sent |-> sent, dirty |-> dirty,
               pulses |-> pulses]
    /\ steps' = (IF name \in {"pixelsFill", "updatePulses"} THEN steps ELSE steps + 1)
    /\ UNCHANGED inputs

\* A call of a method of the device that touches neither a graph object nor the
\* pulse list.
Log(name, args, ret, fault) ==
    /\ LogCall(name, args, ret, fault)
    /\ UNCHANGED overlays

Record(name, args, ret, fault) ==
    /\ Log(name, args, ret, fault)
    /\ dirty' = (IF name \in NotDrawing THEN dirty ELSE TRUE)

\* self.ar[i] = v inside the call `name`
Store(i, v, name, args) ==
    LET k == PyIndex(i, numLEDs)
    IN  IF k = -1
        THEN /\ ar' = ar
             /\ Record(name, args, "None", "IndexError")
        ELSE /\ ar' = [ar EXCEPT ![k] = v]
             /\ Record(name, args, "None", "none")

\* The mutant writes the slot after the one asked for.
pixelSetNext(i, colour) ==
    /\ Store(i + 1, colour, "pixelSet", <<i, colour>>)
    /\ UNCHANGED <<geometry, dimmer_ar, brightness, limiter, wire>>

pixelSet(i, colour) ==
    /\ Store(i, colour, "pixelSet", <<i, colour>>)
    /\ UNCHANGED <<geometry, dimmer_ar, brightness, limiter, wire>>

\* The mutant saturates each channel at 255 instead of adding the integers.
pixelAddSaturating(i, colour) ==
    LET k   == PyIndex(i, numLEDs)
        old == Channels(ar[k])
        add == Channels(colour)
        sat(a, b) == IF a + b > 255 THEN 255 ELSE a + b
    IN  /\ IF k = -1
           THEN /\ ar' = ar
                /\ Record("pixelAdd", <<i, colour>>, "None", "IndexError")
           ELSE Store(i, rgb2GBColour(sat(old[1], add[1]), sat(old[2], add[2]),
                                      sat(old[3], add[3])),
                      "pixelAdd", <<i, colour>>)
        /\ UNCHANGED <<geometry, dimmer_ar, brightness, limiter, wire>>

pixelAdd(i, colour) ==
    LET k == PyIndex(i, numLEDs)
    IN  /\ IF k = -1
           THEN /\ ar' = ar
                /\ Record("pixelAdd", <<i, colour>>, "None", "IndexError")
           ELSE Store(i, ar[k] + colour, "pixelAdd", <<i, colour>>)
        /\ UNCHANGED <<geometry, dimmer_ar, brightness, limiter, wire>>

pixelsFill(colour) ==
    /\ ar' = [i \in DOMAIN ar |-> colour]
    /\ Record("pixelsFill", <<colour>>, "None", "none")
    /\ UNCHANGED <<geometry, dimmer_ar, brightness, limiter, wire>>

updateRateLimitFPS(rateLimitFPS) ==
    /\ rateLimit' = rateLimitFPS
    /\ Record("updateRateLimitFPS", <<rateLimitFPS>>, "None", "none")
    /\ UNCHANGED <<geometry, buffer, lastFrame_ms, now, wire>>

updateRateLimitCharactersPerSecond(rateLimitCharactersPerSecond) ==
    /\ kind = "matrix8x8"
    /\ rateLimit' = rateLimitCharactersPerSecond * 8
    /\ Record("updateRateLimitCharactersPerSecond", <<rateLimitCharactersPerSecond>>,
              "None", "none")
    /\ UNCHANGED <<geometry, buffer, lastFrame_ms, now, wire>>

\* The caller spends dt milliseconds between two calls.
elapse(dt) ==
    /\ now' = now + dt
    /\ Record("elapse", <<dt>>, "None", "none")
    /\ UNCHANGED <<geometry, buffer, rateLimit, lastFrame_ms, wire>>

(***************************************************************************)
(* pixelsShow: __pixelsShowPico on rp2, __pixelsShowRPi on Linux.  `over`  *)
(* is the delay inside __syncWait, `work` the time from the stamp to the   *)
(* transport push (gc.collect and the scaling loop).  A rate limit of zero *)
(* makes 1000 // self.rateLimit raise ZeroDivisionError before anything is *)
(* stamped or pushed.                                                      *)
(***************************************************************************)
\* The mutant scales the pixel buffer itself instead of the dimmer copy.
pixelsShowInPlace(over, work) ==
    LET stamp == syncWait(now, lastFrame_ms, rateLimit, over)
        frame == [i \in DOMAIN ar |-> flushWord(ar[i], brightness)]
    IN  /\ rateLimit # 0
        /\ lastFrame_ms' = stamp
        /\ now' = stamp + work
        /\ ar' = frame
        /\ sent' = frame
        /\ pushAt' = stamp + work
        /\ prevPushAt' = pushAt
        /\ Log("pixelsShow", <<>>, "None", "none")
        /\ dirty' = FALSE
        /\ UNCHANGED <<geometry, dimmer_ar, brightness, rateLimit>>

pixelsShow(over, work) ==
    IF rateLimit = 0
    THEN /\ Log("pixelsShow", <<>>, "None", "ZeroDivisionError")
         /\ UNCHANGED <<geometry, buffer, limiter, wire, dirty>>
    ELSE LET stamp == syncWait(now, lastFrame_ms, rateLimit, over)
             frame == [i \in DOMAIN ar |-> flushWord(ar[i], brightness)]
         IN  /\ lastFrame_ms' = stamp
             /\ now' = stamp + work
             /\ dimmer_ar' = IF platform = "rp2" THEN frame ELSE dimmer_ar
             /\ sent' = frame
             /\ pushAt' = stamp + work
             /\ prevPushAt' = pushAt
             /\ Log("pixelsShow", <<>>, "None", "none")
             /\ dirty' = FALSE
             /\ UNCHANGED <<geometry, ar, brightness, rateLimit>>

(***************************************************************************)
(* glowbitMatrix: the 2D setters                                           *)
(***************************************************************************)
OnCanvas(x, y) == x >= 0 /\ y >= 0 /\ x < numLEDsX /\ y < numLEDsY

\* The mutant wraps x only.
pixelSetXYNoWrapY(x, y, colour) ==
    /\ IsMatrix
    /\ Store(remap(x % numLEDsX, y), colour, "pixelSetXY", <<x, y, colour>>)
    /\ UNCHANGED <<geometry, dimmer_ar, brightness, limiter, wire>>

pixelSetXY(x, y, colour) ==
    /\ IsMatrix
    /\ Store(remap(x % numLEDsX, y % numLEDsY), colour, "pixelSetXY", <<x, y, colour>>)
    /\ UNCHANGED <<geometry, dimmer_ar, brightness, limiter, wire>>

\* The mutant forgets the lower bound on x.
pixelSetXYClipNoLower(x, y, colour) ==
    /\ IsMatrix
    /\ IF y >= 0 /\ x < numLEDsX /\ y < numLEDsY
       THEN Store(remap(x, y), colour, "pixelSetXYClip", <<x, y, colour>>)
       ELSE /\ ar' = ar
            /\ Record("pixelSetXYClip", <<x, y, colour>>, "None", "none")
    /\ UNCHANGED <<geometry, dimmer_ar, brightness, limiter, wire>>

pixelSetXYClip(x, y, colour) ==
    /\ IsMatrix
    /\ IF OnCanvas(x, y)
       THEN Store(remap(x, y), colour, "pixelSetXYClip", <<x, y, colour>>)
       ELSE /\ ar' = ar
            /\ Record("pixelSetXYClip", <<x, y, colour>>, "None", "none")
    /\ UNCHANGED <<geometry, dimmer_ar, brightness, limiter, wire>>

pixelAddXY(x, y, colour) ==
    LET i == remap(x % numLEDsX, y % numLEDsY)
        k == PyIndex(i, numLEDs)
    IN  /\ IsMatrix
        /\ IF k = -1
           THEN /\ ar' = ar
                /\ Record("pixelAddXY", <<x, y, colour>>, "None", "IndexError")
           ELSE Store(i, ar[k] + colour, "pixelAddXY", <<x, y, colour>>)
        /\ UNCHANGED <<geometry, dimmer_ar, brightness, limiter, wire>>

pixelAddXYClip(x, y, colour) ==
    LET i == remap(x, y)
        k == PyIndex(i, numLEDs)
    IN  /\ IsMatrix
        /\ IF OnCanvas(x, y)
           THEN IF k = -1
                THEN /\ ar' = ar
                     /\ Record("pixelAddXYClip", <<x, y, colour>>, "None", "IndexError")
                ELSE Store(i, colour + ar[k], "pixelAddXYClip", <<x, y, colour>>)
           ELSE /\ ar' = ar
                /\ Record("pixelAddXYClip", <<x, y, colour>>, "None", "none")
        /\ UNCHANGED <<geometry, dimmer_ar, brightness, limiter, wire>>

(***************************************************************************)
(* glowbitMatrix: drawing.  Each method hands a sequence of points to one  *)
(* of the 2D setters; the sequences are computed as the code's loops walk  *)
(* them.  remap of a point on the canvas is a valid index, so neither      *)
(* setter faults here.                                                     *)
(***************************************************************************)
Abs(a) == IF a < 0 THEN -a ELSE a

\* self.pixelSetXY(p[1], p[2], colour) for each p of pts from the k-th on, in
\* turn, on buffer buf
RECURSIVE SetXYFrom(_, _, _, _)
SetXYFrom(buf, pts, k, colour) ==
    IF k > Len(pts) THEN buf
    ELSE SetXYFrom([buf EXCEPT ![remap(pts[k][1] % numLEDsX, pts[k][2] % numLEDsY)] = colour],
                   pts, k + 1, colour)

SetXYEach(buf, pts, colour) == SetXYFrom(buf, pts, 1, colour)

\* self.pixelSetXYClip(p[1], p[2], colour) for each p of pts from the k-th on
RECURSIVE SetXYClipFrom(_, _, _, _)
SetXYClipFrom(buf, pts, k, colour) ==
    IF k > Len(pts) THEN buf
    ELSE SetXYClipFrom(IF OnCanvas(pts[k][1], pts[k][2])
                       THEN [buf EXCEPT ![remap(pts[k][1], pts[k][2])] = colour]
                       ELSE buf,
                       pts, k + 1, colour)

SetXYClipEach(buf, pts, colour) == SetXYClipFrom(buf, pts, 1, colour)

\* The while loop of drawLine: the points handed to pixelSetXYClip from x0 on.
RECURSIVE LineWalk(_, _, _, _, _, _, _, _)
LineWalk(x0, y0, x1, err, dx, dy, ystep, steep) ==
    IF x0 > x1 THEN <<>>
    ELSE LET e    == err - dy
             here == IF steep THEN <<y0, x0>> ELSE <<x0, y0>>
         IN  <<here>> \o (IF e < 0
                          THEN LineWalk(x0 + 1, y0 + ystep, x1, e + dx, dx, dy, ystep, steep)
                          ELSE LineWalk(x0 + 1, y0, x1, e, dx, dy, ystep, steep))

\* drawLine from the computation of dx on, x0 <= x1 being established.
LineFrom(steep, x0, y0, x1, y1) ==
    LET dx == x1 - x0
        dy == Abs(y1 - y0)
    IN  LineWalk(x0, y0, x1, Shr(dx, 1), dx, dy, IF y0 < y1 THEN 1 ELSE -1, steep)

\* The mutant forgets to swap start and end when x0 > x1.
LinePointsNoSwap(x0, y0, x1, y1) ==
    LET steep == Abs(y1 - y0) > Abs(x1 - x0)
    IN  IF steep THEN LineFrom(steep, y0, x0, y1, x1) ELSE LineFrom(steep, x0, y0, x1, y1)

\* The points drawLine hands to pixelSetXYClip, in order.
LinePoints(x0, y0, x1, y1) ==
    LET steep == Abs(y1 - y0) > Abs(x1 - x0)
        a0 == IF steep THEN y0 ELSE x0
        b0 == IF steep THEN x0 ELSE y0
        a1 == IF steep THEN y1 ELSE x1
        b1 == IF steep THEN x1 ELSE y1
    IN  IF a0 > a1 THEN LineFrom(steep, a1, b1, a0, b0) ELSE LineFrom(steep, a0, b0, a1, b1)

\* A drawing method that hands pts to pixelSetXYClip.
DrawClip(name, args, pts, colour) ==
    /\ IsMatrix
    /\ ar' = SetXYClipEach(ar, pts, colour)
    /\ Record(name, args, "None", "none")
    /\ UNCHANGED <<geometry, dimmer_ar, brightness, limiter, wire>>

\* A drawing method that hands pts to pixelSetXY.
DrawWrap(name, args, pts, colour) ==
    /\ IsMatrix
    /\ ar' = SetXYEach(ar, pts, colour)
    /\ Record(name, args, "None", "none")
    /\ UNCHANGED <<geometry, dimmer_ar, brightness, limiter, wire>>

drawLine(x0, y0, x1, y1, colour) ==
    DrawClip("drawLine", <<x0, y0, x1, y1, colour>>, LinePoints(x0, y0, x1, y1), colour)

\* The four drawLine calls of drawRectangle.
RectanglePoints(x0, y0, x1, y1) ==
    LinePoints(x0, y0, x1, y0) \o LinePoints(x1, y0, x1, y1)
        \o LinePoints(x1, y1, x0, y1) \o LinePoints(x0, y1, x0, y0)

\* The mutant draws the outline through the wrapping setter.
drawRectangleWrapping(x0, y0, x1, y1, colour) ==
    DrawWrap("drawRectangle", <<x0, y0, x1, y1, colour>>,
             RectanglePoints(x0, y0, x1, y1), colour)

drawRectangle(x0, y0, x1, y1, colour) ==
    DrawClip("drawRectangle", <<x0, y0, x1, y1, colour>>,
             RectanglePoints(x0, y0, x1, y1), colour)

\* for x in range(x0, x1+1): for y in range(y0, y1+1): the points in that order
RectangleFillPoints(x0, y0, x1, y1) ==
    LET w == IF x1 >= x0 THEN x1 - x0 + 1 ELSE 0
        h == IF y1 >= y0 THEN y1 - y0 + 1 ELSE 0
    IN  [k \in 1..(w * h) |-> <<x0 + ((k - 1) \div h), y0 + ((k - 1) % h)>>]

\* The mutant's ranges stop before x1 and y1.
drawRectangleFillExclusive(x0, y0, x1, y1, colour) ==
    DrawWrap("drawRectangleFill", <<x0, y0, x1, y1, colour>>,
             RectangleFillPoints(x0, y0, x1 - 1, y1 - 1), colour)

drawRectangleFill(x0, y0, x1, y1, colour) ==
    DrawWrap("drawRectangleFill", <<x0, y0, x1, y1, colour>>,
             RectangleFillPoints(x0, y0, x1, y1), colour)

\* The while loop of drawCircle: the eight points of each step
RECURSIVE CircleWalk(_, _, _, _, _, _, _)
CircleWalk(x0, y0, x, y, f, ddf_x, ddf_y) ==
    IF ~(x < y) THEN <<>>
    ELSE LET down == f >= 0
             y2   == IF down THEN y - 1 ELSE y
             ddy  == IF down THEN ddf_y + 2 ELSE ddf_y
             f1   == IF down THEN f + ddy ELSE f
             x2   == x + 1
             ddx  == ddf_x + 2
             f2   == f1 + ddx
         IN  << <<x0 + x2, y0 + y2>>, <<x0 - x2, y0 + y2>>,
                <<x0 + x2, y0 - y2>>, <<x0 - x2, y0 - y2>>,
                <<x0 + y2, y0 + x2>>, <<x0 - y2, y0 + x2>>,
                <<x0 + y2, y0 - x2>>, <<x0 - y2, y0 - x2>> >>
             \o CircleWalk(x0, y0, x2, y2, f2, ddx, ddy)

\* The mutant leaves the four axis points out.
CirclePointsNoAxis(x0, y0, r) == CircleWalk(x0, y0, 0, r, 1 - r, 1, -2 * r)

\* The points drawCircle hands to pixelSetXYClip, in order.
CirclePoints(x0, y0, r) ==
    << <<x0, y0 + r>>, <<x0, y0 - r>>, <<x0 + r, y0>>, <<x0 - r, y0>> >>
    \o CircleWalk(x0, y0, 0, r, 1 - r, 1, -2 * r)

drawCircle(x0, y0, r, colour) ==
    DrawClip("drawCircle", <<x0, y0, r, colour>>, CirclePoints(x0, y0, r), colour)

(***************************************************************************)
(* Python floats.  CPython's float is an IEEE-754 binary64 number: every   *)
(* true division, product, sum and difference is the exact result rounded  *)
(* to 53 significant bits, a tie going to the even significand.  A float   *)
(* is modelled by the record [sg, mt, ex] that stands for sg * mt * 2^ex,  *)
(* with sg in {1, -1} and mt a natural number below 2^53 (or 2^53 itself)  *)
(* written in limbs: a sequence of digits in base 2^15, the least          *)
(* significant first and the most significant not zero, <<>> for 0.        *)
(* Exponents stay far inside the range of binary64 for the integers the    *)
(* model draws, so overflow and subnormal numbers do not arise.            *)
(***************************************************************************)
\* The limbs without the zero limbs at the most significant end
RECURSIVE BigNorm(_)
BigNorm(a) ==
    IF a = <<>> THEN <<>>
    ELSE IF a[Len(a)] = 0 THEN BigNorm(SubSeq(a, 1, Len(a) - 1))
    ELSE a

\* The limbs of the natural number n
RECURSIVE BigOfNat(_)
BigOfNat(n) ==
    IF n = 0 THEN <<>> ELSE <<n % 32768>> \o BigOfNat(n \div 32768)

\* The natural number of the limbs a
RECURSIVE BigToNat(_)
BigToNat(a) ==
    IF a = <<>> THEN 0 ELSE a[1] + 32768 * BigToNat(Tail(a))

\* a + b + c for a carry c in {0, 1}
RECURSIVE BigAdd(_, _, _)
BigAdd(a, b, c) ==
    IF a = <<>> /\ b = <<>> THEN (IF c = 0 THEN <<>> ELSE <<c>>)
    ELSE LET s == (IF a = <<>> THEN 0 ELSE a[1]) + (IF b = <<>> THEN 0 ELSE b[1]) + c
         IN  <<s % 32768>> \o BigAdd(IF a = <<>> THEN a ELSE Tail(a),
                                     IF b = <<>> THEN b ELSE Tail(b), s \div 32768)

\* The limbs, not normalised, of a - b - c for a >= b + c and a borrow c
RECURSIVE BigSubLimbs(_, _, _)
BigSubLimbs(a, b, c) ==
    IF a = <<>> THEN <<>>
    ELSE LET d == a[1] - (IF b = <<>> THEN 0 ELSE b[1]) - c
         IN  <<d % 32768>> \o BigSubLimbs(Tail(a), IF b = <<>> THEN b ELSE Tail(b),
                                          IF d < 0 THEN 1 ELSE 0)

\* a - b for a >= b
BigSub(a, b) == BigNorm(BigSubLimbs(a, b, 0))

\* a < b
RECURSIVE BigLess(_, _)
BigLess(a, b) ==
    IF Len(a) # Len(b) THEN Len(a) < Len(b)
    ELSE IF a = <<>> THEN FALSE
    ELSE IF a[Len(a)] # b[Len(b)] THEN a[Len(a)] < b[Len(b)]
    ELSE BigLess(BigNorm(SubSeq(a, 1, Len(a) - 1)), BigNorm(SubSeq(b, 1, Len(b) - 1)))

\* The limbs, not normalised, of a * d + c for a digit d and a carry c
RECURSIVE BigMulLimbs(_, _, _)
BigMulLimbs(a, d, c) ==
    IF a = <<>> THEN (IF c = 0 THEN <<>> ELSE <<c>>)
    ELSE LET p == a[1] * d + c
         IN  <<p % 32768>> \o BigMulLimbs(Tail(a), d, p \div 32768)

\* a * b
RECURSIVE BigMul(_, _)
BigMul(a, b) ==
    IF a = <<>> \/ b = <<>> THEN <<>>
    ELSE BigNorm(BigAdd(BigMulLimbs(a, b[1], 0), <<0>> \o BigMul(a, Tail(b)), 0))

\* a * 2^k
BigShl(a, k) ==
    IF a = <<>> THEN <<>>
    ELSE [i \in 1..(k \div 15) |-> 0] \o BigMulLimbs(a, 2 ^ (k % 15), 0)

\* The limbs, not normalised, and the remainder of a divided by d, 1 <= d <= 2^15
RECURSIVE BigDivLimbs(_, _)
BigDivLimbs(a, d) ==
    IF a = <<>> THEN [q |-> <<>>, r |-> 0]
    ELSE LET hi  == BigDivLimbs(Tail(a), d)
             cur == hi.r * 32768 + a[1]
         IN  [q |-> <<cur \div d>> \o hi.q, r |-> cur % d]

\* a \div 2^k
BigShr(a, k) ==
    IF k \div 15 >= Len(a) THEN <<>>
    ELSE BigNorm(BigDivLimbs(SubSeq(a, k \div 15 + 1, Len(a)), 2 ^ (k % 15)).q)

\* Bit k of a, bit 0 the least significant
BigBit(a, k) ==
    IF k \div 15 >= Len(a) THEN 0 ELSE (a[k \div 15 + 1] \div 2 ^ (k % 15)) % 2

\* a % 2^k # 0
BigLowBits(a, k) ==
    \/ \E i \in 1..(k \div 15) : i <= Len(a) /\ a[i] # 0
    \/ k \div 15 < Len(a) /\ a[k \div 15 + 1] % 2 ^ (k % 15) # 0

\* The number of bits of a
BigBitLen(a) ==
    IF a = <<>> THEN 0
    ELSE 15 * (Len(a) - 1) + CHOOSE n \in 1..15 : 2 ^ (n - 1) <= a[Len(a)] /\ a[Len(a)] < 2 ^ n

\* a \div 2^k rounded to the nearest, a tie to the even one: 1 when it is the
\* larger neighbour, else 0
BigRoundsUp(a, k) ==
    IF k = 0 THEN 0
    ELSE IF BigBit(a, k - 1) = 1 /\ (BigLowBits(a, k - 1) \/ BigBit(a, k) = 1) THEN 1
    ELSE 0

\* The float nearest to sg * mt * 2^ex, mt of any size
FloatRound(sg, mt, ex) ==
    LET k == BigBitLen(mt) - 53
    IN  IF k <= 0 THEN [sg |-> sg, mt |-> mt, ex |-> ex]
        ELSE [sg |-> sg, mt |-> BigAdd(BigShr(mt, k), <<>>, BigRoundsUp(mt, k)),
              ex |-> ex + k]

\* float(n) for an integer n
FloatOfInt(n) == [sg |-> IF n < 0 THEN -1 ELSE 1, mt |-> BigOfNat(Abs(n)), ex |-> 0]

\* The next n binary places of r / d, read as a number, for 0 <= r < d, and
\* the remainder they leave
RECURSIVE DivBits(_, _, _)
DivBits(r, d, n) ==
    IF n = 0 THEN [q |-> 0, r |-> r]
    ELSE LET one  == r >= d - r
             rest == DivBits(IF one THEN r - (d - r) ELSE r + r, d, n - 1)
         IN  [q |-> (IF one THEN 2 ^ (n - 1) ELSE 0) + rest.q, r |-> rest.r]

\* The limbs of the first 15 * n binary places of r / d, and the remainder
RECURSIVE DivPlaces(_, _, _)
DivPlaces(r, d, n) ==
    IF n = 0 THEN [q |-> <<>>, r |-> r]
    ELSE LET hi == DivBits(r, d, 15)
             lo == DivPlaces(hi.r, d, n - 1)
         IN  [q |-> lo.q \o <<hi.q>>, r |-> lo.r]

\* a / b for integers a and b, b # 0: the quotient to 90 binary places and a
\* last bit that tells whether a remainder was left, rounded
FloatDiv(a, b) ==
    LET whole  == Abs(a) \div Abs(b)
        places == DivPlaces(Abs(a) % Abs(b), Abs(b), 6)
        q      == BigNorm(places.q \o BigOfNat(whole))
    IN  FloatRound(IF (a < 0) # (b < 0) THEN -1 ELSE 1,
                   BigAdd(q, q, IF places.r # 0 THEN 1 ELSE 0), -91)

\* x * y
FloatMul(x, y) == FloatRound(x.sg * y.sg, BigMul(x.mt, y.mt), x.ex + y.ex)

\* x + y
FloatAdd(x, y) ==
    LET ex == IF x.ex < y.ex THEN x.ex ELSE y.ex
        a  == BigShl(x.mt, x.ex - ex)
        b  == BigShl(y.mt, y.ex - ex)
    IN  IF x.sg = y.sg THEN FloatRound(x.sg, BigAdd(a, b, 0), ex)
        ELSE IF BigLess(a, b) THEN FloatRound(y.sg, BigSub(b, a), ex)
        ELSE FloatRound(x.sg, BigSub(a, b), ex)

\* x - y
FloatSub(x, y) == FloatAdd(x, [y EXCEPT !.sg = -y.sg])

\* int(x): the integer towards zero
FloatInt(x) ==
    x.sg * BigToNat(IF x.ex >= 0 THEN BigShl(x.mt, x.ex) ELSE BigShr(x.mt, -x.ex))

\* round(x): the nearest integer, a tie to the even one
FloatRoundInt(x) ==
    IF x.ex >= 0 THEN FloatInt(x)
    ELSE x.sg * (BigToNat(BigShr(x.mt, -x.ex)) + BigRoundsUp(x.mt, -x.ex))

(***************************************************************************)
(* Graph objects.  A graph is a record of the attributes its constructor   *)
(* sets; colourMap is "Solid" or "Rainbow" for the bound colour map        *)
(* method and "unset" when the constructor assigned no colourMap           *)
(* attribute.  `direction` keeps the constructor's argument.  The scale m  *)
(* and the offset of a graph are the floats the constructor computes.      *)
(***************************************************************************)
\* int(num / den) for integers: truncation towards zero.  The float num / den
\* is an integer only when the exact quotient is one, and is otherwise further
\* from every integer than its rounding error.
TruncDiv(num, den) ==
    LET q == Abs(num) \div Abs(den)
    IN  IF (num < 0) # (den < 0) THEN -q ELSE q

\* The colourMap attribute the constructors leave for the argument colourMap
\* (a name; callables are not modelled).
boundColourMap(colourMap) ==
    IF colourMap \in {"Solid", "Rainbow"} THEN colourMap ELSE "unset"

\* m(index, minIndex, maxIndex) for the colour map of graph g: colourMapSolid
\* or colourMapRainbow
ColourMapped(g, index, minIndex, maxIndex) ==
    IF g.colourMap = "Solid" THEN [fault |-> "none", c |-> g.colour]
    ELSE IF maxIndex = minIndex THEN [fault |-> "ZeroDivisionError", c |-> 0]
    ELSE [fault |-> "none",
          c |-> wheel(TruncDiv((index - minIndex) * 255, maxIndex - minIndex))]

\* The writes of a handler, from the k-th on: "setXY" is pixelSetXY, "set" is
\* pixelSet, "raise" an exception raised while computing a colour, "skip" an
\* iteration that writes nothing.  The result is the buffer and the fault that
\* ended the handler.
RECURSIVE RunPlan(_, _, _)
RunPlan(buf, plan, k) ==
    IF k > Len(plan) THEN [ar |-> buf, fault |-> "none"]
    ELSE LET e == plan[k]
         IN  CASE e.op = "raise" -> [ar |-> buf, fault |-> e.fault]
               [] e.op = "skip" -> RunPlan(buf, plan, k + 1)
               [] e.op = "setXY" ->
                    RunPlan([buf EXCEPT ![remap(e.x % numLEDsX, e.y % numLEDsY)] = e.c],
                            plan, k + 1)
               [] e.op = "set" ->
                    LET j == PyIndex(e.i, numLEDs)
                    IN  IF j = -1 THEN [ar |-> buf, fault |-> "IndexError"]
                        ELSE RunPlan([buf EXCEPT ![j] = e.c], plan, k + 1)

\* The end of a handler that has left buf in the pixel buffer and ended with
\* `fault`; when it ended without one and `show` holds it calls pixelsShow.
Finish(name, args, buf, fault, show) ==
    /\ ar' = buf
    /\ IF fault = "none" /\ show /\ rateLimit # 0
       THEN LET stamp == syncWait(now, lastFrame_ms, rateLimit, 0)
                frame == [i \in DOMAIN buf |-> flushWord(buf[i], brightness)]
            IN  /\ lastFrame_ms' = stamp
                /\ now' = stamp + 1
                /\ dimmer_ar' = IF platform = "rp2" THEN frame ELSE dimmer_ar
                /\ sent' = frame
                /\ pushAt' = stamp + 1
                /\ prevPushAt' = pushAt
                /\ dirty' = FALSE
                /\ LogCall(name, args, "None", "none")
       ELSE /\ LogCall(name, args, "None",
                       IF fault # "none" THEN fault
                       ELSE IF show THEN "ZeroDivisionError" ELSE "none")
            /\ dirty' = TRUE
            /\ UNCHANGED <<dimmer_ar, lastFrame_ms, now, wire>>
    /\ UNCHANGED <<geometry, brightness, rateLimit>>

\* A constructor of a graph object: the device is not touched.
Construct(name, args, g) ==
    /\ graph' = g
    /\ LogCall(name, args, "None", "none")
    /\ UNCHANGED <<geometry, buffer, limiter, wire, dirty, pulses, scroll>>

\* A constructor that raises: no object is made.
ConstructFault(name, args, fault) ==
    /\ LogCall(name, args, "None", fault)
    /\ UNCHANGED <<geometry, buffer, limiter, wire, dirty, overlays>>

\* glowbitMatrix.graph1D(originX, originY, length, direction, minValue, maxValue,
\* colour, colourMap, update); m = length/(maxValue-minValue) raises
\* ZeroDivisionError for maxValue = minValue
graph1D(originX, originY, length, direction, minValue, maxValue, colour, colourMap, update) ==
    LET orientation == CASE direction \in {"Up", "Down"} -> 1
                         [] direction \in {"Left", "Right"} -> 0
                         [] OTHER -> 1
        inc == CASE direction \in {"Up", "Left"} -> -1
                 [] direction \in {"Down", "Right"} -> 1
                 [] OTHER -> 1
        args == <<originX, originY, length, direction, minValue, maxValue,
                  colour, colourMap, update>>
    IN  /\ IsMatrix
        /\ IF maxValue = minValue THEN ConstructFault("graph1D", args, "ZeroDivisionError")
           ELSE Construct("graph1D", args,
                     [class |-> "glowbitMatrix.graph1D", originX |-> originX,
                      originY |-> originY, length |-> length, direction |-> direction,
                      orientation |-> orientation, inc |-> inc,
                      minValue |-> minValue, maxValue |-> maxValue,
                      m |-> FloatDiv(length, maxValue - minValue), colour |-> colour,
                      colourMap |-> boundColourMap(colourMap), update |-> update])

\* The writes of glowbitMatrix.updateGraph1D(g, value), for
\* N = int(graph.m*(value - graph.minValue))
Graph1DPlan(g, value) ==
    LET N  == FloatInt(FloatMul(g.m, FloatOfInt(value - g.minValue)))
        lo == IF g.orientation = 1 THEN g.originY ELSE g.originX
        cell(n) ==
            LET idx == lo + g.inc * n
                col == IF n < N
                       THEN ColourMapped(g, idx, lo, lo + (g.inc * g.length - 1))
                       ELSE [fault |-> "none", c |-> 0]
            IN  IF col.fault # "none" THEN [op |-> "raise", fault |-> col.fault]
                ELSE [op |-> "setXY",
                      x |-> IF g.orientation = 1 THEN g.originX ELSE idx,
                      y |-> IF g.orientation = 1 THEN idx ELSE g.originY,
                      c |-> col.c]
    IN  [k \in 1..g.length |-> cell(k - 1)]

updateGraph1D(value) ==
    LET run == IF graph.colourMap = "unset"
               THEN [ar |-> ar, fault |-> "AttributeError"]
               ELSE RunPlan(ar, Graph1DPlan(graph, value), 1)
    IN  /\ IsMatrix
        /\ graph.class = "glowbitMatrix.graph1D"
        /\ Finish("updateGraph1D", <<value>>, run.ar, run.fault, graph.update)
        /\ UNCHANGED overlays

\* The object stick.graph1D(...) makes, for maxValue # minValue:
\* m = (maxIndex-minIndex)/(maxValue-minValue), offset = minIndex-m*minValue
StickGraph(minValue, maxValue, minIndex, maxIndex, colour, colourMap, update) ==
    LET m == FloatDiv(maxIndex - minIndex, maxValue - minValue)
    IN  [class |-> "stick.graph1D", minValue |-> minValue, maxValue |-> maxValue,
         minIndex |-> minIndex, maxIndex |-> maxIndex, m |-> m,
         offset |-> FloatSub(FloatOfInt(minIndex), FloatMul(m, FloatOfInt(minValue))),
         colour |-> colour, colourMap |-> boundColourMap(colourMap), update |-> update]

\* stick.graph1D(minValue, maxValue, minIndex, maxIndex, colour, colourMap,
\* update); the division raises ZeroDivisionError for maxValue = minValue
stickGraph1D(minValue, maxValue, minIndex, maxIndex, colour, colourMap, update) ==
    LET args == <<minValue, maxValue, minIndex, maxIndex, colour, colourMap, update>>
    IN  /\ IsStick
        /\ IF maxValue = minValue
           THEN ConstructFault("stick.graph1D", args, "ZeroDivisionError")
           ELSE Construct("stick.graph1D", args,
                          StickGraph(minValue, maxValue, minIndex, maxIndex, colour,
                                     colourMap, update))

\* The writes of stick.updateGraph1D(g, value), for
\* i = int(graph.m*value + graph.offset)
StickGraph1DPlan(g, value) ==
    LET i   == FloatInt(FloatAdd(FloatMul(g.m, FloatOfInt(value)), g.offset))
        lit(idx) ==
            LET col == ColourMapped(g, idx, g.minIndex, g.maxIndex)
            IN  IF col.fault # "none" THEN [op |-> "raise", fault |-> col.fault]
                ELSE [op |-> "set", i |-> idx, c |-> col.c]
    IN  [k \in 1..(i + 1 - g.minIndex) |-> lit(g.minIndex + k - 1)]
        \o [k \in 1..(g.maxIndex - i) |-> [op |-> "set", i |-> i + k, c |-> 0]]

stickUpdateGraph1D(value) ==
    LET run == IF graph.colourMap = "unset"
               THEN [ar |-> ar, fault |-> "AttributeError"]
               ELSE RunPlan(ar, StickGraph1DPlan(graph, value), 1)
    IN  /\ IsStick
        /\ graph.class = "stick.graph1D"
        /\ Finish("stick.updateGraph1D", <<value>>, run.ar, run.fault, graph.update)
        /\ UNCHANGED overlays

\* glowbitMatrix.graph2D(minValue, maxValue, originX, originY, width, height,
\* colour, bgColour, colourMap, update, filled, bars):
\* m = (1-height)/(maxValue-minValue), which raises ZeroDivisionError for
\* maxValue = minValue, and offset = originY-m*minValue
graph2D(minValue, maxValue, originX, originY, width, height, colour, bgColour, colourMap, update, bars) ==
    LET args == <<minValue, maxValue, originX, originY, width, height, colour,
                  bgColour, colourMap, update, bars>>
        m    == FloatDiv(1 - height, maxValue - minValue)
    IN  /\ IsMatrix
        /\ IF maxValue = minValue THEN ConstructFault("graph2D", args, "ZeroDivisionError")
           ELSE Construct("graph2D", args,
                 [class |-> "glowbitMatrix.graph2D", minValue |-> minValue,
                  maxValue |-> maxValue, originX |-> originX, originY |-> originY,
                  width |-> width, height |-> height, m |-> m,
                  offset |-> FloatSub(FloatOfInt(originY), FloatMul(m, FloatOfInt(minValue))),
                  colour |-> colour,
                  bgColour |-> bgColour, colourMap |-> boundColourMap(colourMap),
                  update |-> update, bars |-> bars, data |-> <<>>])

\* graph2D.addData(value): the newest value first, at most width values kept
addData(value) ==
    LET longer == <<value>> \o graph.data
        kept   == IF Len(longer) > graph.width
                  THEN SubSeq(longer, 1, Len(longer) - 1)
                  ELSE longer
    IN  /\ graph.class = "glowbitMatrix.graph2D"
        /\ Construct("addData", <<value>>, [graph EXCEPT !.data = kept])

\* y = round(graph.m*value + graph.offset), the row a value is scaled to
Graph2DRow(g, value) ==
    FloatRoundInt(FloatAdd(FloatMul(g.m, FloatOfInt(value)), g.offset))

\* The writes of updateGraph2D for the d-th value of g.data, drawn in column
\* originX + width - d
Graph2DColumn(g, d) ==
    LET x   == g.originX + g.width - d
        y   == Graph2DRow(g, g.data[d])
        inX == x >= g.originX /\ x < g.originX + g.width
        put(i, col) ==
            IF col.fault # "none" THEN [op |-> "raise", fault |-> col.fault]
            ELSE [op |-> "set", i |-> i, c |-> col.c]
        bar(idx) ==
            IF inX /\ idx <= g.originY /\ idx > g.originY - g.height
            THEN put(remap(x, idx),
                     ColourMapped(g, idx, g.originY, g.originY + g.height - 1))
            ELSE [op |-> "skip"]
    IN  IF g.bars
        THEN [k \in 1..(g.originY + 1 - y) |-> bar(y + k - 1)]
        ELSE IF inX /\ y <= g.originY /\ y > g.originY + g.height
             THEN <<put(remap(x, y),
                        ColourMapped(g, y - g.originY, g.originY,
                                     g.originY + g.height - 1))>>
             ELSE <<>>

\* The writes of updateGraph2D for the values of g.data from the d-th on
RECURSIVE Graph2DData(_, _)
Graph2DData(g, d) ==
    IF d > Len(g.data) THEN <<>>
    ELSE Graph2DColumn(g, d) \o Graph2DData(g, d + 1)

\* The writes of updateGraph2D(g): the background rectangle, then the data
Graph2DPlan(g) ==
    LET box == RectangleFillPoints(g.originX, g.originY - g.height + 1,
                                   g.originX + g.width - 1, g.originY)
    IN  [k \in 1..Len(box) |->
            [op |-> "setXY", x |-> box[k][1], y |-> box[k][2], c |-> g.bgColour]]
        \o Graph2DData(g, 1)

updateGraph2D ==
    LET run == IF graph.colourMap = "unset"
               THEN [ar |-> ar, fault |-> "AttributeError"]
               ELSE RunPlan(ar, Graph2DPlan(graph), 1)
    IN  /\ IsMatrix
        /\ graph.class = "glowbitMatrix.graph2D"
        /\ Finish("updateGraph2D", <<>>, run.ar, run.fault, graph.update)
        /\ UNCHANGED overlays

(***************************************************************************)
(* Methods that draw and flush in one call, and the getters.  The flush    *)
(* inside a call is the one of Finish.                                     *)
(***************************************************************************)
pixelSetNow(i, colour) ==
    LET k == PyIndex(i, numLEDs)
    IN  /\ Finish("pixelSetNow", <<i, colour>>,
                  IF k = -1 THEN ar ELSE [ar EXCEPT ![k] = colour],
                  IF k = -1 THEN "IndexError" ELSE "none", TRUE)
        /\ UNCHANGED overlays

pixelsFillNow(colour) ==
    /\ Finish("pixelsFillNow", <<colour>>, [i \in DOMAIN ar |-> colour], "none", TRUE)
    /\ UNCHANGED overlays

blankDisplay ==
    /\ Finish("blankDisplay", <<>>, [i \in DOMAIN ar |-> 0], "none", TRUE)
    /\ UNCHANGED overlays

\* F applied to the value of e
After(e, F(_)) == CHOOSE r \in {F(x) : x \in {e}} : TRUE

\* The clock and the pushes after one more flush
FlushTime(t) ==
    LET stamp == syncWait(t.now, t.lastFrame_ms, rateLimit, 0)
    IN  [lastFrame_ms |-> stamp, now |-> stamp + 1, pushAt |-> stamp + 1,
         prevPushAt |-> t.pushAt]

\* The clock and the pushes after n more flushes: the first half of them, and
\* then the rest
RECURSIVE FlushTimes(_, _)
FlushTimes(n, t) ==
    IF n <= 0 THEN t
    ELSE IF n = 1 THEN FlushTime(t)
    ELSE After(FlushTimes(n \div 2, t), LAMBDA half : FlushTimes(n - (n \div 2), half))

\* A demonstration that ends with a blank frame flushed, after flushes flushes
\* in all; first is the buffer at its first flush, which a rate limit of zero
\* stops with ZeroDivisionError.
Demonstrate(name, args, first, flushes) ==
    LET blank == [i \in DOMAIN ar |-> 0]
        t     == FlushTimes(flushes, [lastFrame_ms |-> lastFrame_ms, now |-> now,
                                      pushAt |-> pushAt, prevPushAt |-> prevPushAt])
    IN  /\ IF rateLimit = 0
           THEN /\ ar' = first
                /\ LogCall(name, args, "None", "ZeroDivisionError")
                /\ dirty' = TRUE
                /\ UNCHANGED <<dimmer_ar, lastFrame_ms, now, wire>>
           ELSE /\ ar' = blank
                /\ dimmer_ar' = IF platform = "rp2" THEN blank ELSE dimmer_ar
                /\ sent' = blank
                /\ lastFrame_ms' = t.lastFrame_ms
                /\ now' = t.now
                /\ pushAt' = t.pushAt
                /\ prevPushAt' = t.prevPushAt
                /\ LogCall(name, args, "None", "none")
                /\ dirty' = FALSE
        /\ UNCHANGED <<geometry, brightness, rateLimit, overlays>>

\* chaos(iters): iters random frames, each flushed, then blankDisplay; `frame`
\* is the first random frame.  With a rate limit of zero the first flush raises
\* ZeroDivisionError and the buffer keeps what was written before it.
chaos(iters, frame) ==
    Demonstrate("chaos", <<iters>>,
                IF iters > 0 THEN frame ELSE [i \in DOMAIN ar |-> 0],
                (IF iters > 0 THEN iters ELSE 0) + 1)

\* getPixel(N): self.ar[N]
getPixel(N) ==
    LET k == PyIndex(N, numLEDs)
    IN  /\ IF k = -1 THEN LogCall("getPixel", <<N>>, "None", "IndexError")
           ELSE LogCall("getPixel", <<N>>, ar[k], "none")
        /\ UNCHANGED <<geometry, buffer, limiter, wire, dirty, overlays>>

\* getPixelXY(x, y): self.ar[remap(x,y)] names a global remap that does not exist
getPixelXY(x, y) ==
    /\ IsMatrix
    /\ LogCall("getPixelXY", <<x, y>>, "None", "NameError")
    /\ UNCHANGED <<geometry, buffer, limiter, wire, dirty, overlays>>

pixelSetXYNow(x, y, colour) ==
    LET i == remap(x % numLEDsX, y % numLEDsY)
    IN  /\ IsMatrix
        /\ Finish("pixelSetXYNow", <<x, y, colour>>,
                  [ar EXCEPT ![i % numLEDs] = colour], "none", TRUE)
        /\ UNCHANGED overlays

\* drawTriangle: three drawLine calls
drawTriangle(x0, y0, x1, y1, x2, y2, colour) ==
    DrawClip("drawTriangle", <<x0, y0, x1, y1, x2, y2, colour>>,
             LinePoints(x0, y0, x1, y1) \o LinePoints(x1, y1, x2, y2)
                 \o LinePoints(x2, y2, x0, y0),
             colour)

\* lineDemo(iters): blankDisplay, then iters sweeps of a line, each position
\* of it filled, drawn by drawLine and flushed, then blankDisplay
lineDemo(iters) ==
    LET sweep == numLEDsX + (IF numLEDsX > 2 THEN numLEDsX - 2 ELSE 0)
    IN  /\ IsMatrix
        /\ Demonstrate("lineDemo", <<iters>>, [i \in DOMAIN ar |-> 0],
                       2 + (IF iters > 0 THEN iters * sweep ELSE 0))

(***************************************************************************)
(* Text on a matrix8x8: drawChar, printTextWrap, addTextScroll and         *)
(* updateTextScroll.  The font petme128 is a module of its own; a          *)
(* character is the sequence of its eight column bytes in that font, bit k *)
(* of a column being the pixel of row k.                                   *)
(***************************************************************************)
\* What a store ar[i] += c through ptr32(self.ar) does when i is outside the
\* buffer.  ptr32 is a raw pointer under micropython.viper and the array itself
\* under the dummy ptr32 of the module: the store either lands outside the
\* buffer and the handler goes on ("pointer"), or is indexed as the array
\* indexes it, a negative index counting from the end and any other raising
\* IndexError ("array").
PtrModes == {"array", "pointer"}

\* The slot the store ar[i] += c names, -1 when it names none
StoreSlot(i, mode) ==
    IF mode = "array" THEN PyIndex(i, numLEDs)
    ELSE IF 0 <= i /\ i < numLEDs THEN i ELSE -1

\* The eight stores of one column of a character on the buffer buf, dat the
\* byte of the column in the font: ar[remap(x,y+k)] += ((dat>>k)&1)*colour for
\* k = 0..7, up to the first that raises.  A store that is not made, or that
\* lands outside the buffer, is written as one that adds 0.
DrawColumn(buf, x, y, dat, colour, mode) ==
    LET slot(k) == StoreSlot(remap8x8(x, y + k), mode)
        bad     == {k \in 0..7 : mode = "array" /\ slot(k) = -1}
        stop    == IF bad = {} THEN 8 ELSE CHOOSE k \in bad : \A m \in bad : k <= m
        made(k) == k < stop /\ slot(k) # -1
        at(k)   == IF made(k) THEN slot(k) ELSE 0
        by(k)   == IF made(k) THEN BitAnd(Shr(dat, k), 1) * colour ELSE 0
    IN  [ar |-> [buf EXCEPT ![at(0)] = @ + by(0), ![at(1)] = @ + by(1),
                            ![at(2)] = @ + by(2), ![at(3)] = @ + by(3),
                            ![at(4)] = @ + by(4), ![at(5)] = @ + by(5),
                            ![at(6)] = @ + by(6), ![at(7)] = @ + by(7)],
         fault |-> IF stop < 8 THEN "IndexError" ELSE "none"]

\* for col in range(col, maxCol), x counting up with col, on s: the buffer and
\* the fault raised so far
RECURSIVE DrawColumns(_, _, _, _, _, _, _, _)
DrawColumns(s, glyph, col, maxCol, x, y, colour, mode) ==
    IF col >= maxCol \/ s.fault # "none" THEN s
    ELSE After(DrawColumn(s.ar, x, y, glyph[col + 1], colour, mode),
               LAMBDA t : DrawColumns(t, glyph, col + 1, maxCol, x + 1, y, colour, mode))

\* drawChar(char, Px, Py, colour) on s, with glyph the columns of char
DrawChar(s, glyph, Px, Py, colour, mode) ==
    IF s.fault # "none" \/ Px < -7 \/ Px > numLEDsX THEN s
    ELSE DrawColumns(s, glyph, IF Px < 0 THEN -Px ELSE 0,
                     IF numLEDsX - Px < 8 THEN numLEDsX - Px ELSE 8,
                     IF Px < 0 THEN 0 ELSE Px, Py, colour, mode)

drawChar(glyph, Px, Py, colour) ==
    /\ kind = "matrix8x8"
    /\ \E mode \in PtrModes :
       \E run \in {DrawChar([ar |-> ar, fault |-> "none"], glyph, Px, Py, colour, mode)} :
           Finish("drawChar", <<glyph, Px, Py, colour>>, run.ar, run.fault, FALSE)
    /\ UNCHANGED overlays

\* printTextWrap(string, x, y, colour) from the k-th character on, the cursor
\* at <<Px, Py>>
RECURSIVE PrintFrom(_, _, _, _, _, _, _, _)
PrintFrom(s, string, k, Px, Py, x, colour, mode) ==
    IF k > Len(string) \/ s.fault # "none" THEN s
    ELSE LET wrap == Px + 8 + 1 >= numLEDsX
         IN  After(IF Py < numLEDsY - 7
                   THEN DrawChar(s, string[k], Px, Py, colour, mode)
                   ELSE s,
                   LAMBDA t : PrintFrom(t, string, k + 1,
                                        IF wrap THEN (IF x < 0 THEN 0 ELSE x) ELSE Px + 8,
                                        IF wrap THEN Py + 8 ELSE Py, x, colour, mode))

printTextWrap(string, x, y, colour) ==
    /\ kind = "matrix8x8"
    /\ \E mode \in PtrModes :
       \E run \in {PrintFrom([ar |-> ar, fault |-> "none"], string, 1, x, y, x, colour, mode)} :
           Finish("printTextWrap", <<string, x, y, colour>>, run.ar, run.fault, FALSE)
    /\ UNCHANGED overlays

\* matrix8x8.textScroll.__init__(string, y, x, colour, bgColour)
textScroll(string, y, x, colour, bgColour) ==
    [string |-> string, x |-> x, y |-> y, colour |-> colour, bgColour |-> bgColour]

\* The characters of a scrolling line from the k-th on, each drawn at
\* -textLine.x + 8*x
RECURSIVE DrawLineFrom(_, _, _, _)
DrawLineFrom(s, textLine, k, mode) ==
    IF k > Len(textLine.string) \/ s.fault # "none" THEN s
    ELSE After(DrawChar(s, textLine.string[k], -textLine.x + 8 * (k - 1),
                        textLine.y, textLine.colour, mode),
               LAMBDA t : DrawLineFrom(t, textLine, k + 1, mode))

\* pixelSetXY(p[1], p[2], colour) for each p of pts, all with one colour: the
\* cells that are written hold the colour
SetXYAll(buf, pts, colour) ==
    After({remap(pts[k][1] % numLEDsX, pts[k][2] % numLEDsY) : k \in DOMAIN pts},
          LAMBDA hit : [i \in DOMAIN buf |-> IF i \in hit THEN colour ELSE buf[i]] @@ <<>>)

\* One line of the first loop of updateTextScroll on s, the buffer, the list
\* and the fault raised so far: the background bar, the characters, then the
\* line moves on by one
ScrollLine(s, k, mode) ==
    LET textLine == s.list[k]
        bar == SetXYAll(s.ar, RectangleFillPoints(0, textLine.y, numLEDsX, textLine.y + 7),
                        textLine.bgColour)
    IN  After(DrawLineFrom([ar |-> bar, fault |-> "none"], textLine, 1, mode),
              LAMBDA run : [ar |-> run.ar, fault |-> run.fault,
                            list |-> IF run.fault # "none" THEN s.list
                                     ELSE [s.list EXCEPT ![k].x = @ + 1]])

\* That loop from the k-th line on
RECURSIVE ScrollLines(_, _, _)
ScrollLines(s, k, mode) ==
    IF k > Len(s.list) \/ s.fault # "none" THEN s
    ELSE After(ScrollLine(s, k, mode), LAMBDA t : ScrollLines(t, k + 1, mode))

\* The lines that have not scrolled out
StillScrolling(list) == SelectSeq(list, LAMBDA textLine : textLine.x # 8 * Len(textLine.string))

\* What updateTextScroll does on s after its first loop has left drawn
ScrollEnd(s, drawn) ==
    LET kept  == StillScrolling(drawn.list)
        moved == [s EXCEPT !.ar = drawn.ar, !.list = kept]
        stamp == syncWait(s.now, s.lastFrame_ms, rateLimit, 0)
        shown == [moved EXCEPT !.lastFrame_ms = stamp, !.now = stamp + 1,
                               !.pushAt = stamp + 1, !.prevPushAt = s.pushAt,
                               !.flushes = s.flushes + 1, !.shown = drawn.ar]
        ended == IF s.updateText = "True" THEN shown ELSE moved
    IN  IF drawn.fault # "none"
        THEN [s EXCEPT !.ar = drawn.ar, !.list = drawn.list, !.fault = drawn.fault]
        ELSE IF s.updateText = "unset" THEN [moved EXCEPT !.fault = "AttributeError"]
        ELSE IF s.updateText = "True" /\ rateLimit = 0
             THEN [moved EXCEPT !.fault = "ZeroDivisionError"]
        ELSE [ended EXCEPT !.scrollingText = IF Len(kept) = 0 THEN FALSE ELSE s.scrollingText]

\* One call of updateTextScroll on s: the buffer, the text attributes, the
\* clock and the pushes, the fault raised so far and the buffer last flushed
ScrollOnce(s, mode) ==
    After(ScrollLines([ar |-> s.ar, list |-> s.list, fault |-> "none"], 1, mode),
          LAMBDA drawn : ScrollEnd(s, drawn))

\* One round of while self.scrollingText > 0: self.updateTextScroll()
ScrollRound(s, mode) ==
    IF s.fault # "none" \/ ~s.scrollingText THEN s ELSE ScrollOnce(s, mode)

\* n rounds of that loop: the first half of them, and then the rest on what
\* the first half has left
RECURSIVE ScrollRounds(_, _, _)
ScrollRounds(s, mode, n) ==
    IF n = 0 THEN s
    ELSE IF n = 1 THEN ScrollRound(s, mode)
    ELSE After(ScrollRounds(s, mode, n \div 2),
               LAMBDA half : ScrollRounds(half, mode, n - (n \div 2)))

\* The loop followed for fuel rounds; "running" when it has not ended by then
ScrollUntilDone(s, mode, fuel) ==
    LET end == ScrollRounds(s, mode, fuel)
    IN  IF end.fault = "none" /\ end.scrollingText THEN [end EXCEPT !.fault = "running"]
        ELSE end

\* The buffer, the text attributes and the clock when a text call starts
TextState(list, updateText, update, scrollingText) ==
    [ar |-> ar, list |-> list, updateText |-> updateText, update |-> update,
     scrollingText |-> scrollingText, fault |-> "none", flushes |-> 0, shown |-> <<>>,
     lastFrame_ms |-> lastFrame_ms, now |-> now, pushAt |-> pushAt,
     prevPushAt |-> prevPushAt]

\* The end of a text call that has left s; drawnOn tells whether the buffer
\* was drawn on since the last flush
FinishTextAs(name, args, s, drawnOn) ==
    LET frame == [i \in DOMAIN s.shown |-> flushWord(s.shown[i], brightness)]
    IN  /\ ar' = s.ar
        /\ scroll' = [list |-> s.list, updateText |-> s.updateText, update |-> s.update,
                      scrollingText |-> s.scrollingText]
        /\ IF s.flushes > 0
           THEN /\ dimmer_ar' = (IF platform = "rp2" THEN frame ELSE dimmer_ar)
                /\ sent' = frame
                /\ lastFrame_ms' = s.lastFrame_ms
                /\ now' = s.now
                /\ pushAt' = s.pushAt
                /\ prevPushAt' = s.prevPushAt
           ELSE UNCHANGED <<dimmer_ar, lastFrame_ms, now, wire>>
        /\ dirty' = drawnOn
        /\ LogCall(name, args, "None", s.fault)
        /\ UNCHANGED <<geometry, brightness, rateLimit, graph, pulses>>

\* The end of addTextScroll or updateTextScroll; drew tells whether it ran
\* updateTextScroll
FinishText(name, args, s, drew) ==
    FinishTextAs(name, args, s,
                 IF ~drew THEN dirty
                 ELSE ~(s.fault = "none" /\ s.updateText = "True" /\ s.flushes > 0))

\* The rounds after which every line of list that is going to scroll out has
\* done so, and one more: a line leaves in the round that moves it to
\* 8*len(string), and a line at or past that never leaves
ScrollFuel(list) ==
    LET left == {8 * Len(list[k].string) - list[k].x : k \in DOMAIN list} \cup {0}
    IN  (CHOOSE m \in left : \A n \in left : n <= m) + 1

\* addTextScroll(string, y, x, colour, bgColour, update, blocking).  A blocking
\* call whose loop does not end does not return.
addTextScroll(string, y, x, colour, bgColour, update, blocking) ==
    LET added == TextState(Append(scroll.list,
                                  textScroll(string, y, -numLEDsX - x, colour, bgColour)),
                           IF update THEN "True" ELSE "False",
                           IF blocking /\ ~update THEN "True" ELSE scroll.update,
                           TRUE)
    IN  /\ kind = "matrix8x8"
        /\ \E mode \in PtrModes :
           \E s \in {IF blocking THEN ScrollUntilDone(added, mode, ScrollFuel(added.list)) ELSE added} :
               /\ s.fault # "running"
               /\ FinishText("addTextScroll",
                             <<string, y, x, colour, bgColour, update, blocking>>, s, blocking)

updateTextScroll ==
    /\ kind = "matrix8x8"
    /\ \E mode \in PtrModes :
       \E s \in {ScrollOnce(TextState(scroll.list, scroll.updateText, scroll.update,
                                      scroll.scrollingText), mode)} :
           FinishText("updateTextScroll", <<>>, s, TRUE)

(***************************************************************************)
(* Pulses of a stick: stick.pulse, addPulse, updatePulses.  A pulse is the *)
(* record of its attributes; id stands for the identity of the object,     *)
(* which list.remove compares.  A Python list is a sequence; a value of   *)
(* TLA+ carries no type, so the constructor is told whether its colour     *)
(* argument is a list.                                                     *)
(***************************************************************************)
\* stick.pulse.__init__(speed, colour, index, colourMap); isList is
\* type(colour) is list, and any other colour becomes the list [colour]
pulse(id, speed, colour, isList, index, colourMap) ==
    [id |-> id, speed |-> speed, index |-> index, position |-> index * 100,
     colour |-> IF isList THEN colour ELSE <<colour>>,
     colourMap |-> IF colourMap \in {"Solid", "Rainbow"} THEN colourMap ELSE "None"]

\* stick.pulse.update
pulseUpdate(p) ==
    LET position == p.position + p.speed
    IN  [p EXCEPT !.position = position, !.index = position \div 100]

\* stick.addPulse(speed, colour, index, colourMap), isList as for pulse.  The
\* call is recorded with the colour list of the pulse made and isList, which
\* together tell the colour given.
addPulse(speed, colour, isList, index, colourMap) ==
    /\ IsStick
    /\ \E p \in {pulse(steps + 1, speed, colour, isList, index, colourMap)} :
           /\ pulses' = Append(pulses, p)
           /\ LogCall("addPulse", <<speed, p.colour, isList, index, colourMap>>, "None", "none")
    /\ UNCHANGED <<geometry, buffer, limiter, wire, dirty, graph, scroll>>

\* The inner loop of updatePulses for pulse p, from its j-th colour on: a -1 is
\* replaced by p.colourMap(i, 0, numLEDs) or by 0, and the colour is added at i
\* when i is on the stick.  colourMapSolid returns p.colour, a list, which
\* pixelAdd cannot add to an integer.
RECURSIVE DrawPulse(_, _, _)
DrawPulse(buf, p, j) ==
    IF j > Len(p.colour) THEN [ar |-> buf, fault |-> "none"]
    ELSE LET i      == p.index - (j - 1)
             mapped == p.colour[j] = -1 /\ p.colourMap # "None"
             col    == IF mapped THEN ColourMapped(p, i, 0, numLEDs)
                       ELSE [fault |-> "none",
                             c |-> IF p.colour[j] = -1 THEN 0 ELSE p.colour[j]]
         IN  IF col.fault # "none" THEN [ar |-> buf, fault |-> col.fault]
             ELSE IF i < 0 \/ i >= numLEDs THEN DrawPulse(buf, p, j + 1)
             ELSE IF mapped /\ p.colourMap = "Solid"
                  THEN [ar |-> buf, fault |-> "TypeError"]
             ELSE IF buf[i] + col.c < 0 THEN [ar |-> buf, fault |-> "OverflowError"]
             ELSE DrawPulse([buf EXCEPT ![i] = buf[i] + col.c], p, j + 1)

\* The first loop of updatePulses, from the k-th pulse on: each pulse is drawn
\* and then moved; an exception leaves the later pulses where they were.
RECURSIVE DrawPulses(_, _, _)
DrawPulses(buf, ps, k) ==
    IF k > Len(ps) THEN [ar |-> buf, pulses |-> ps, fault |-> "none"]
    ELSE LET d == DrawPulse(buf, ps[k], 1)
         IN  IF d.fault # "none" THEN [ar |-> d.ar, pulses |-> ps, fault |-> d.fault]
             ELSE DrawPulses(d.ar, [ps EXCEPT ![k] = pulseUpdate(ps[k])], k + 1)

\* self.pulses.remove(p): the first entry that is p goes, ValueError without one
listRemove(ps, p) ==
    LET at == {k \in DOMAIN ps : ps[k].id = p.id}
    IN  IF at = {} THEN [pulses |-> ps, fault |-> "ValueError"]
        ELSE LET k == CHOOSE k \in at : \A j \in at : k <= j
             IN  [pulses |-> SubSeq(ps, 1, k - 1) \o SubSeq(ps, k + 1, Len(ps)),
                  fault |-> "none"]

\* The second loop of updatePulses, for p in reversed(self.pulses), at list
\* position k: the reverse iterator ends once its position is past the list.
RECURSIVE RemoveExited(_, _)
RemoveExited(ps, k) ==
    IF k < 1 \/ k > Len(ps) THEN [pulses |-> ps, fault |-> "none"]
    ELSE LET p    == ps[k]
             high == IF p.index - Len(p.colour) >= numLEDs THEN listRemove(ps, p)
                     ELSE [pulses |-> ps, fault |-> "none"]
             low  == IF high.fault = "none" /\ p.index + Len(p.colour) < 0
                     THEN listRemove(high.pulses, p)
                     ELSE high
         IN  IF low.fault # "none" THEN low ELSE RemoveExited(low.pulses, k - 1)

updatePulses ==
    /\ IsStick
    /\ \E drawn \in {DrawPulses([i \in DOMAIN ar |-> 0], pulses, 1)} :
       \E left \in {IF drawn.fault # "none"
                    THEN [pulses |-> drawn.pulses, fault |-> drawn.fault]
                    ELSE RemoveExited(drawn.pulses, Len(drawn.pulses))} :
           /\ pulses' = left.pulses
           /\ Finish("updatePulses", <<>>, drawn.ar, left.fault, FALSE)
           /\ UNCHANGED <<graph, scroll>>

\* The writes of stick.fillSlice(i, j, colour): pixelSet(k, colour) for k in
\* range(i, j+1), a j of -1 first replaced by numLEDs
FillSlicePlan(i, j, colour) ==
    LET last == IF j = -1 THEN numLEDs ELSE j
    IN  [k \in 1..(last + 1 - i) |-> [op |-> "set", i |-> i + k - 1, c |-> colour]]

fillSlice(i, j, colour) ==
    /\ IsStick
    /\ \E run \in {RunPlan(ar, FillSlicePlan(i, j, colour), 1)} :
           Finish("fillSlice", <<i, j, colour>>, run.ar, run.fault, FALSE)
    /\ UNCHANGED overlays

\* sliceDemo(): three rounds of slices growing from the first LED and shrinking
\* to the last, each filled by fillSlice and flushed, then a blank frame
sliceDemo ==
    /\ IsStick
    /\ Demonstrate("sliceDemo", <<>>, [i \in DOMAIN ar |-> IF i = 0 THEN 16711680 ELSE 0],
                   3 * 2 * numLEDs + 1)

\* The writes of triangle.fillTri(tri, colour): self.ar[i] = colour for i in
\* range(LEDsPerTri*tri, LEDsPerTri*tri + LEDsPerTri)
FillTriPlan(tri, colour) ==
    [k \in 1..LEDsPerTri |-> [op |-> "set", i |-> LEDsPerTri * tri + k - 1, c |-> colour]]

fillTri(tri, colour) ==
    /\ kind = "triangle"
    /\ \E run \in {RunPlan(ar, FillTriPlan(tri, colour), 1)} :
           Finish("fillTri", <<tri, colour>>, run.ar, run.fault, FALSE)
    /\ UNCHANGED overlays

\* rainbow.pixelSetAngle(angle, colour): pixelSet(angle//15, colour)
pixelSetAngle(angle, colour) ==
    /\ kind = "rainbow"
    /\ Store(angle \div 15, colour, "pixelSetAngle", <<angle, colour>>)
    /\ UNCHANGED <<geometry, dimmer_ar, brightness, limiter, wire>>

\* rainbow.drawRainbow(offset): one wheel colour per pixel, 17 steps apart,
\* then pixelsShow
drawRainbow(offset) ==
    /\ kind = "rainbow"
    /\ Finish("drawRainbow", <<offset>>, RainbowColours(numLEDs, offset), "none", TRUE)
    /\ UNCHANGED overlays

(***************************************************************************)
(* The demonstrations.  A demonstration draws and flushes in a loop; it is *)
(* followed on a record of the buffer, the fault raised so far, the number *)
(* of flushes made, the buffer last flushed and whether the buffer was     *)
(* drawn on since.  What random.randint returns is an argument.            *)
(***************************************************************************)
DemoState ==
    [ar |-> ar, fault |-> "none", flushes |-> 0, shown |-> <<>>, dirty |-> dirty]

\* The buffer of s becomes buf
DemoDraw(s, buf) == [s EXCEPT !.ar = buf, !.dirty = TRUE]

\* pixelsShow on s
DemoShow(s) ==
    IF s.fault # "none" THEN s
    ELSE IF rateLimit = 0 THEN [s EXCEPT !.fault = "ZeroDivisionError"]
    ELSE [s EXCEPT !.flushes = @ + 1, !.shown = s.ar, !.dirty = FALSE]

\* blankDisplay on s
DemoBlank(s) == DemoShow(DemoDraw(s, [i \in DOMAIN s.ar |-> 0]))

\* The end of the demonstration `name` that has left s
DemoEnd(name, args, s) ==
    LET t     == FlushTimes(s.flushes, [lastFrame_ms |-> lastFrame_ms, now |-> now,
                                        pushAt |-> pushAt, prevPushAt |-> prevPushAt])
        frame == [i \in DOMAIN s.shown |-> flushWord(s.shown[i], brightness)]
    IN  /\ ar' = s.ar
        /\ IF s.flushes > 0
           THEN /\ dimmer_ar' = (IF platform = "rp2" THEN frame ELSE dimmer_ar)
                /\ sent' = frame
                /\ lastFrame_ms' = t.lastFrame_ms
                /\ now' = t.now
                /\ pushAt' = t.pushAt
                /\ prevPushAt' = t.prevPushAt
           ELSE UNCHANGED <<dimmer_ar, lastFrame_ms, now, wire>>
        /\ dirty' = s.dirty
        /\ LogCall(name, args, "None", s.fault)
        /\ UNCHANGED <<geometry, brightness, rateLimit>>

\* fireworks(iters): blankDisplay, then iters bursts at a random centre <<Cx,
\* Cy>> in a random colour: the circles of radius 0 .. numLEDsX//2 - 1 drawn
\* one by one and then drawn again in black, a flush after each.  Every cell a
\* burst paints it paints black again, so each burst ends on a blank buffer.
fireworks(iters, colour, Cx, Cy) ==
    /\ IsMatrix
    /\ Demonstrate("fireworks", <<iters>>, [i \in DOMAIN ar |-> 0],
                   1 + (IF iters > 0 THEN iters * 2 * (numLEDsX \div 2) ELSE 0))

\* The colour circularRainbow gives the cell <<x, y>> in the frame colourOffset
RingColour(x, y, colourOffset) ==
    LET temp1 == x - ((numLEDsX - 1) \div 2)
        temp2 == y - ((numLEDsY - 1) \div 2)
        r2    == temp1 * temp1 + temp2 * temp2
        r     == (5 + (r2 \div 5)) \div 2
    IN  wheel(((r * 300) \div numLEDsX) - colourOffset * 10)

\* for x in range(maxX): for y in range(maxY): pixelSetXY(x, y, ...) on buf
RingFrame(buf, colourOffset) ==
    LET cell(i) == {p \in (0..(numLEDsX - 1)) \X (0..(numLEDsY - 1)) :
                        remap(p[1], p[2]) = i}
        last(i) == CHOOSE p \in cell(i) :
                       \A q \in cell(i) : q[1] < p[1] \/ (q[1] = p[1] /\ q[2] <= p[2])
    IN  [i \in DOMAIN buf |->
            IF cell(i) = {} THEN buf[i] ELSE RingColour(last(i)[1], last(i)[2], colourOffset)]

\* circularRainbow(): blankDisplay, then 255 frames of rings, each flushed
circularRainbow ==
    /\ IsMatrix
    /\ \E s \in {DemoBlank(DemoState)} :
           DemoEnd("circularRainbow", <<>>,
                   IF s.fault # "none" THEN s
                   ELSE LET frame == RingFrame(s.ar, 254)
                        IN  [s EXCEPT !.ar = frame, !.shown = frame, !.flushes = @ + 255])
    /\ UNCHANGED overlays

\* One round of the loop of bounce: the pixel is blanked, moved and drawn in
\* wheel(iters%255), it turns at an edge, and the frame is flushed
BounceRound(s) ==
    IF s.fault # "none" \/ s.iters <= 0 THEN s
    ELSE LET Px    == s.Px + s.dirX
             Py    == s.Py + s.dirY
             left  == [s.ar EXCEPT ![remap(s.Px % numLEDsX, s.Py % numLEDsY)] = 0]
             drawn == [left EXCEPT ![remap(Px % numLEDsX, Py % numLEDsY)] =
                                       wheel(s.iters % 255)]
         IN  DemoShow([DemoDraw(s, drawn) EXCEPT
                          !.Px = Px, !.Py = Py,
                          !.dirX = IF Px = 0 \/ Px = numLEDsX - 1 THEN -s.dirX ELSE s.dirX,
                          !.dirY = IF Py = 0 \/ Py = numLEDsY - 1 THEN -s.dirY ELSE s.dirY,
                          !.iters = s.iters - 1])

\* n rounds of that loop: the first half of them, and then the rest
RECURSIVE BounceRounds(_, _)
BounceRounds(s, n) ==
    IF n <= 0 THEN s
    ELSE IF n = 1 THEN BounceRound(s)
    ELSE After(BounceRounds(s, n \div 2), LAMBDA half : BounceRounds(half, n - (n \div 2)))

\* bounce(iters), the pixel starting at the random cell <<Px, Py>>
bounce(iters, Px, Py) ==
    /\ IsMatrix
    /\ \E s \in {BounceRounds(DemoState @@ [Px |-> Px, Py |-> Py, dirX |-> 1, dirY |-> 1,
                                            iters |-> iters], iters)} :
           DemoEnd("bounce", <<iters>>, s)
    /\ UNCHANGED overlays

\* glowbitMatrix.raindrop(x, speed)
raindrop(x, speed) == [x |-> x, speed |-> speed, y |-> 0]

\* The colours of a drop from its head upwards: c1 .. c5, then black
DropColours ==
    <<rgb2GBColour(200, 255, 200), rgb2GBColour(0, 127, 0), rgb2GBColour(0, 64, 0),
      rgb2GBColour(0, 32, 0), rgb2GBColour(0, 16, 0), 0, 0, 0>>

\* The eight pixelSetXYClip calls that draw a drop with its head at <<x, y>>
DrawDrop(buf, x, y) ==
    LET hit(i) == {k \in 0..7 : OnCanvas(x, y - k) /\ remap(x, y - k) = i}
    IN  [i \in DOMAIN buf |->
            IF hit(i) = {} THEN buf[i]
            ELSE DropColours[1 + CHOOSE k \in hit(i) : \A m \in hit(i) : m <= k]] @@ <<>>

\* for drop in drops, from the k-th on: the drop falls by its speed and is drawn
RECURSIVE DrawDrops(_, _, _)
DrawDrops(buf, drops, k) ==
    IF k > Len(drops) THEN buf
    ELSE After(DrawDrop(buf, drops[k].x, drops[k].y \div 10),
               LAMBDA drawn : DrawDrops(drawn, drops, k + 1))

\* The drops the inner while loop of rain appends: until len(drops)/density is
\* no less than numLEDs/16, and none once iters has run out; the k-th drop made
\* takes the k-th pair <<x, speed>> of draws, which is read round and round
Refilled(s, density, draws) ==
    LET target == (numLEDs * density + 15) \div 16
        needed == IF s.iters > 0 /\ density > 0 /\ target > Len(s.drops)
                  THEN target - Len(s.drops)
                  ELSE 0
        draw(k) == draws[((k - 1) % Len(draws)) + 1]
    IN  [s EXCEPT !.drops = s.drops \o [k \in 1..needed |->
                                           raindrop(draw(s.made + k)[1], draw(s.made + k)[2])],
                  !.made = s.made + needed]

\* One round of while len(drops) > 0
RainRound(s, density, draws) ==
    IF s.fault # "none" \/ Len(s.drops) = 0 THEN s
    ELSE IF density = 0 THEN [s EXCEPT !.fault = "ZeroDivisionError"]
    ELSE IF density < 0 /\ s.iters > 0 THEN [s EXCEPT !.fault = "running"]
    ELSE LET full     == Refilled(s, density, draws)
             fallen   == [k \in DOMAIN full.drops |->
                             [full.drops[k] EXCEPT !.y = @ + full.drops[k].speed]]
             drawn    == DrawDrops(s.ar, fallen, 1)
             kept     == SelectSeq(fallen, LAMBDA drop : ~(drop.y \div 10 > numLEDsY + 6))
         IN  After(drawn, LAMBDA buf :
                 DemoShow([DemoDraw(full, buf) EXCEPT !.drops = kept, !.iters = s.iters - 1]))

\* n rounds of that loop: the first half of them, and then the rest
RECURSIVE RainRounds(_, _, _, _)
RainRounds(s, density, draws, n) ==
    IF n <= 0 THEN s
    ELSE IF n = 1 THEN RainRound(s, density, draws)
    ELSE After(RainRounds(s, density, draws, n \div 2),
               LAMBDA half : RainRounds(half, density, draws, n - (n \div 2)))

\* The rounds after which the last drop has fallen out: a drop is made in a
\* round no later than iters and falls no slower than the slowest of draws
RainFuel(iters, draws) ==
    LET slowest == CHOOSE v \in {draws[k][2] : k \in DOMAIN draws} :
                       \A k \in DOMAIN draws : v <= draws[k][2]
    IN  (IF iters > 0 THEN iters ELSE 1) + ((10 * (numLEDsY + 7)) \div slowest) + 1

\* rain(iters, density); draws are the pairs <<x, speed>> that random.randint
\* returns for the drops, in the order they are made.  A call whose loop does
\* not end does not return.
rain(iters, density, draws) ==
    /\ IsMatrix
    /\ Len(draws) > 0
    /\ \A k \in DOMAIN draws : /\ draws[k][1] \in 0..numLEDsX
                               /\ draws[k][2] \in 2..numLEDsX
    /\ \E blanked \in {DemoBlank(DemoState)} :
       \E s \in {RainRounds(blanked @@ [drops |-> <<raindrop(draws[1][1], draws[1][2])>>,
                                        made |-> 1, iters |-> iters],
                            density, draws, RainFuel(iters, draws))} :
           /\ s.fault # "running"
           /\ DemoEnd("rain", <<iters, density>>, s)
    /\ UNCHANGED overlays

\* The identity of a pulse object made inside a demonstration: one that no
\* pulse of the list has
FreshId(ps) ==
    LET ids == {ps[k].id : k \in DOMAIN ps} \cup {0}
    IN  (CHOOSE m \in ids : \A n \in ids : m <= n) - 1

\* One round of the loop of pulseDemo: a pulse is added when iters is a
\* multiple of numLEDs+4, running up from the first LED on every second of
\* them and down from the last on the others, then pixelsFill(0),
\* updatePulses and pixelsShow
PulseDemoRound(s) ==
    IF s.fault # "none" \/ s.iters <= 0 THEN s
    ELSE LET up     == pulse(FreshId(s.pulses), 100, <<16777215>>, TRUE, 0, "None")
             down   == pulse(FreshId(s.pulses), -100, <<-1, rgb2GBColour(255, 255, 255), -1>>,
                             TRUE, numLEDs, "Rainbow")
             listed == IF s.iters % (numLEDs + 4) # 0 THEN s.pulses
                       ELSE IF s.iters % (2 * (numLEDs + 4)) = 0 THEN Append(s.pulses, up)
                       ELSE Append(s.pulses, down)
             drawn  == DrawPulses([i \in DOMAIN s.ar |-> 0], listed, 1)
             left   == IF drawn.fault # "none"
                       THEN [pulses |-> drawn.pulses, fault |-> drawn.fault]
                       ELSE RemoveExited(drawn.pulses, Len(drawn.pulses))
         IN  After(left, LAMBDA end :
                 DemoShow([DemoDraw(s, drawn.ar) EXCEPT !.pulses = end.pulses,
                                                        !.fault = end.fault,
                                                        !.iters = s.iters - 1]))

\* n rounds of that loop: the first half of them, and then the rest
RECURSIVE PulseDemoRounds(_, _)
PulseDemoRounds(s, n) ==
    IF n <= 0 THEN s
    ELSE IF n = 1 THEN PulseDemoRound(s)
    ELSE After(PulseDemoRounds(s, n \div 2),
               LAMBDA half : PulseDemoRounds(half, n - (n \div 2)))

pulseDemo(iters) ==
    /\ IsStick
    /\ \E s \in {PulseDemoRounds(DemoState @@ [pulses |-> pulses, iters |-> iters], iters)} :
           /\ pulses' = s.pulses
           /\ DemoEnd("pulseDemo", <<iters>>, s)
    /\ UNCHANGED <<graph, scroll>>

\* The graph objects of graphDemo: over the LEDs 0 .. 7, for values 1 .. 8
DemoGraph(colourMap) == StickGraph(1, 8, 0, 7, 16777215, colourMap, TRUE)

\* graphDemo(iters): iters times the values 1 .. 8 and 8 .. 0 on a rainbow
\* graph and then on a white one, each value drawn by updateGraph1D and
\* flushed.  Every call writes the LEDs 0 .. 7, so the buffer after the last
\* is that of the last alone; a stick of fewer than eight LEDs ends the first
\* call with IndexError.
graphDemo(iters) ==
    LET first == RunPlan(ar, StickGraph1DPlan(DemoGraph("Rainbow"), 1), 1)
        last  == RunPlan(ar, StickGraph1DPlan(DemoGraph("Solid"), 0), 1)
        begun == DemoShow([DemoDraw(DemoState, first.ar) EXCEPT !.fault = first.fault])
    IN  /\ IsStick
        /\ DemoEnd("graphDemo", <<iters>>,
                   IF iters <= 0 THEN DemoState
                   ELSE IF begun.fault # "none" THEN begun
                   ELSE [begun EXCEPT !.ar = last.ar, !.shown = last.ar,
                                      !.flushes = 34 * iters])
        /\ UNCHANGED overlays

\* The places where rainbowLoop can be stopped from outside: before a
\* pixelSet of drawRainbow, in the loop of __syncWait, at gc.collect after the
\* stamp, at an sm.put of the flush, and at the head of the flush's loop
\* after an sm.put
RainbowStops == {"pixelSet", "wait", "gc.collect", "sm.put", "for"}

\* rainbowLoop(): drawRainbow(x) for x = 0, 1, 2, ... without end.  The loop
\* is left by a KeyboardInterrupt only, which can arrive anywhere: after
\* `frames` whole flushes, at the place `at` on the way to the next one.
\*   "pixelSet": the first k pixels of the next frame are set;
\*   "wait": the frame is drawn and the clock has advanced by k in __syncWait;
\*   "gc.collect": lastFrame_ms is stamped and nothing is handed over;
\*   "sm.put": k words are handed over and word k is in dimmer_ar;
\*   "for": k words are handed over, 0 < k < numLEDs.
\* The words handed over in a flush that was stopped are the first k of the
\* frame.  A rate limit of zero ends the loop with ZeroDivisionError at the
\* first test of __syncWait, if the loop gets that far.
rainbowLoop(frames, at, k) ==
    LET t      == FlushTimes(frames, [lastFrame_ms |-> lastFrame_ms, now |-> now,
                                      pushAt |-> pushAt, prevPushAt |-> prevPushAt])
        next   == RainbowColours(numLEDs, frames)
        last   == IF frames = 0 THEN ar ELSE RainbowColours(numLEDs, frames - 1)
        words(buf) == [i \in DOMAIN buf |-> picoWord(buf[i], brightness)]
        handed == IF frames = 0 THEN sent ELSE words(last)
        dimmed == IF frames = 0 THEN dimmer_ar ELSE words(last)
        stamp  == syncWait(t.now, t.lastFrame_ms, rateLimit, 0)
        pushes == at \in {"sm.put", "for"}
        scaled == IF at = "sm.put" THEN k + 1 ELSE k
    IN  /\ kind = "rainbow"
        /\ frames >= 0
        /\ CASE at = "pixelSet" -> k \in 0..(numLEDs - 1)
             [] at = "wait" -> /\ k >= 0
                               /\ rateLimit = 0 => k = 0
                               /\ rateLimit # 0 => t.now + k <= stamp
             [] at = "gc.collect" -> k = 0
             [] at = "sm.put" -> k \in 0..(numLEDs - 1)
             [] at = "for" -> k \in 1..(numLEDs - 1)
             [] OTHER -> FALSE
        /\ IF rateLimit = 0 /\ (frames >= 1 \/ at \notin {"pixelSet", "wait"})
           THEN /\ ar' = RainbowColours(numLEDs, 0)
                /\ dirty' = TRUE
                /\ LogCall("rainbowLoop", <<>>, "None", "ZeroDivisionError")
                /\ UNCHANGED <<dimmer_ar, lastFrame_ms, now, wire>>
           ELSE /\ ar' = [i \in DOMAIN ar |->
                             IF at # "pixelSet" \/ i < k THEN next[i] ELSE last[i]]
                /\ lastFrame_ms' = (IF at \in {"pixelSet", "wait"} THEN t.lastFrame_ms
                                    ELSE stamp)
                /\ now' = CASE at = "pixelSet" -> t.now
                             [] at = "wait" -> t.now + k
                             [] at = "gc.collect" -> stamp
                             [] OTHER -> stamp + 1
                /\ dimmer_ar' = (IF pushes
                                 THEN [i \in DOMAIN ar |->
                                          IF i < scaled THEN words(next)[i] ELSE dimmed[i]]
                                 ELSE dimmed)
                /\ sent' = (IF pushes THEN [i \in 0..(k - 1) |-> words(next)[i]]
                            ELSE handed)
                /\ pushAt' = (IF pushes THEN stamp + 1 ELSE t.pushAt)
                /\ prevPushAt' = (IF pushes THEN t.pushAt ELSE t.prevPushAt)
                /\ dirty' = (IF at # "pixelSet" \/ k > 0 THEN TRUE
                             ELSE IF frames > 0 THEN FALSE ELSE dirty)
                /\ LogCall("rainbowLoop", <<>>, "None", "KeyboardInterrupt")
        /\ UNCHANGED <<geometry, brightness, rateLimit, overlays>>

\* pixelsShow on the text state s
TextShow(s) ==
    LET stamp == syncWait(s.now, s.lastFrame_ms, rateLimit, 0)
    IN  IF s.fault # "none" THEN s
        ELSE IF rateLimit = 0 THEN [s EXCEPT !.fault = "ZeroDivisionError"]
        ELSE [s EXCEPT !.lastFrame_ms = stamp, !.now = stamp + 1, !.pushAt = stamp + 1,
                       !.prevPushAt = s.pushAt, !.flushes = s.flushes + 1, !.shown = s.ar]

\* One round of the loop of textDemo: updateTextScroll, then pixelsShow
TextDemoRound(s, mode) ==
    IF s.fault # "none" \/ ~s.scrollingText THEN s
    ELSE After(ScrollOnce(s, mode), LAMBDA t : TextShow(t))

\* n rounds of that loop: the first half of them, and then the rest
RECURSIVE TextDemoRounds(_, _, _)
TextDemoRounds(s, mode, n) ==
    IF n <= 0 THEN s
    ELSE IF n = 1 THEN TextDemoRound(s, mode)
    ELSE After(TextDemoRounds(s, mode, n \div 2),
               LAMBDA half : TextDemoRounds(half, mode, n - (n \div 2)))

\* textDemo(text): blankDisplay, addTextScroll(text), then updateTextScroll
\* and pixelsShow while the text scrolls.  addTextScroll is a method of
\* matrix8x8 only.  A call whose loop does not end does not return.
textDemo(text) ==
    LET blanked == TextShow([TextState(scroll.list, scroll.updateText, scroll.update,
                                       scroll.scrollingText)
                                EXCEPT !.ar = [i \in DOMAIN ar |-> 0]])
        added   == IF blanked.fault # "none" THEN blanked
                   ELSE IF kind # "matrix8x8" THEN [blanked EXCEPT !.fault = "AttributeError"]
                   ELSE [blanked EXCEPT
                            !.list = Append(@, textScroll(text, 0, -numLEDsX, 16777215, 0)),
                            !.updateText = "False", !.scrollingText = TRUE]
    IN  /\ IsMatrix
        /\ \E mode \in PtrModes :
           \E s \in {TextDemoRounds(added, mode, ScrollFuel(added.list))} :
               /\ ~(s.fault = "none" /\ s.scrollingText)
               /\ FinishTextAs("textDemo", <<text>>, s,
                               s.fault \notin {"none", "AttributeError"})

(***************************************************************************)
(* SpecColour: the colour codec applied to drawn inputs.                   *)
(***************************************************************************)
ChannelCorners == {0, 1, 128, 255}

\* Every value of each channel, beside the corner values of the other two.
RGBInputs ==
    {<<r, g, b>> : r \in 0..255, g \in ChannelCorners, b \in ChannelCorners}
    \cup {<<r, g, b>> : r \in ChannelCorners, g \in 0..255, b \in ChannelCorners}
    \cup {<<r, g, b>> : r \in ChannelCorners, g \in ChannelCorners, b \in 0..255}

InitColour ==
    /\ InitDevice("stick", "rp2", 1, 0, 0, 20, 30, -1, 0, 0, 0, 0)
    /\ inputs \in RGBInputs

callRgb2GBColour ==
    /\ call.name = "__init__"
    /\ Len(inputs) = 3
    /\ Pure("rgb2GBColour", inputs, rgb2GBColour(inputs[1], inputs[2], inputs[3]))

callGlowbitColour2RGB ==
    /\ call.name = "rgb2GBColour"
    /\ call' = [name |-> "glowbitColour2RGB", args |-> <<call.ret>>,
                ret |-> glowbitColour2RGB(call.ret).ret,
                fault |-> glowbitColour2RGB(call.ret).fault]
    /\ UNCHANGED <<geometry, buffer, limiter, wire, inputs, dirty, pre, steps, overlays>>

NextColour == callRgb2GBColour \/ callGlowbitColour2RGB

SpecColour == InitColour /\ [][NextColour]_vars

\* C1 as claimed: unpacking a packed (r,g,b) with every channel in [0,255]
\* returns exactly (r,g,b), and the packed value lies in [0, 0xFFFFFF].
C1_RoundTrip ==
    /\ call.name = "rgb2GBColour" => call.ret \in 0..16777215
    /\ call.name = "glowbitColour2RGB" => call.fault = "none" /\ call.ret = inputs

\* The wheel positions drawn: the documented range [0,255] and a full turn on
\* either side of it.
WheelInputs == {<<pos>> : pos \in (-255)..510}

InitWheel ==
    /\ InitDevice("stick", "rp2", 1, 0, 0, 20, 30, -1, 0, 0, 0, 0)
    /\ inputs \in WheelInputs

callWheel ==
    /\ call.name = "__init__"
    /\ Len(inputs) = 1
    /\ Pure("wheel", inputs, wheel(inputs[1]))

NextWheel == callWheel

SpecWheel == InitWheel /\ [][NextWheel]_vars

\* C17: wheel(0) == wheel(255) == 0xFF0000, and between pos 84 and 85 and between
\* pos 169 and 170 every channel changes by at most 3.
C17_WheelContinuity ==
    call.name = "wheel" =>
        LET pos  == call.args[1]
            here == Channels(call.ret)
            next == Channels(wheel(pos + 1))
            prev == Channels(wheel(pos - 1))
        IN  /\ pos \in {0, 255} => call.ret = 16711680
            /\ pos \in {84, 169} =>
                  \A ch \in 1..3 : here[ch] - next[ch] \in (-3)..3
            /\ pos \in {85, 170} =>
                  \A ch \in 1..3 : here[ch] - prev[ch] \in (-3)..3

C17_Witness ==
    /\ call.name = "wheel"
    /\ call.args = <<170>>
    /\ call.ret = 255
    /\ Channels(wheel(169)) = <<0, 3, 252>>

(***************************************************************************)
(* SpecRemap: the built-in remappers over the canvas of every tiling.      *)
(***************************************************************************)
MaxTiles == 3
MaxTileRows == 2
MaxTileCols == 3

InitRemap ==
    /\ \E k \in {"matrix4x4", "matrix8x8"}, n \in 1..MaxTiles,
          rows \in 1..MaxTileRows, cols \in 1..MaxTileCols :
          /\ k = "matrix4x4" => rows = 1 /\ cols = 1
          /\ k = "matrix8x8" => n = 1
          /\ InitDevice(k, "rp2", n, rows, cols, 20, 30, -1, 0, 0, 0, 0)
    /\ inputs \in (0..(numLEDsX - 1)) \X (0..(numLEDsY - 1))

callRemap ==
    /\ call.name = "__init__"
    /\ Len(inputs) = 2
    /\ Pure("remap", inputs, remap(inputs[1], inputs[2]))

NextRemap == callRemap

SpecRemap == InitRemap /\ [][NextRemap]_vars

Canvas == (0..(numLEDsX - 1)) \X (0..(numLEDsY - 1))

\* C2: each built-in remap is a total bijection from the canvas
\* [0,numLEDsX) x [0,numLEDsY) onto the buffer indices [0,numLEDs), for every
\* tile count >= 1.
C2_RemapBijection ==
    /\ {remap(p[1], p[2]) : p \in Canvas} = 0..(numLEDs - 1)
    /\ call.name = "remap" =>
          \A p \in Canvas : remap(p[1], p[2]) = call.ret => p = call.args

C2_Witness ==
    /\ call.name = "remap"
    /\ kind = "matrix4x4"
    /\ tiles = 3
    /\ call.args = <<9, 2>>
    /\ call.ret = 41

\* C3: remap8x8 is serpentine over tile rows: the tile at tile-column c of an even
\* tile-row is block tileRow*tileCols + c, of an odd tile-row block
\* tileRow*tileCols + (tileCols-1-c); inside a tile the address is
\* 8*(y mod 8) + (x mod 8); with tileRows=1, tileCols=2: remap(0,0)=0,
\* remap(7,0)=7, remap(8,0)=64.
C3_Serpentine ==
    /\ (call.name = "remap" /\ kind = "matrix8x8") =>
          LET x == call.args[1]
              y == call.args[2]
              tileRow == y \div 8
              c == x \div 8
              block == IF tileRow % 2 = 0
                       THEN tileRow * tileCols + c
                       ELSE tileRow * tileCols + (tileCols - 1 - c)
          IN  /\ call.ret \div 64 = block
              /\ call.ret % 64 = 8 * (y % 8) + (x % 8)
    /\ (kind = "matrix8x8" /\ tileRows = 1 /\ tileCols = 2) =>
          /\ remap(0, 0) = 0
          /\ remap(7, 0) = 7
          /\ remap(8, 0) = 64

C3_Witness ==
    /\ call.name = "remap"
    /\ kind = "matrix8x8"
    /\ tileRows = 2
    /\ tileCols = 3
    /\ call.args = <<1, 9>>
    /\ call.ret = 329

(***************************************************************************)
(* SpecMatrix: the 2D setters of a matrix, on and off the canvas.          *)
(***************************************************************************)
MaxOff == 1
MatSteps == 1

\* The matrices drawn on: <<class, tiles, tileRows, tileCols>>
MatrixDevices ==
    {<<"matrix4x4", 1, 0, 0>>, <<"matrix4x4", 2, 0, 0>>, <<"matrix8x8", 0, 1, 1>>}

\* Coordinates on the canvas, MaxOff beyond each edge, and a whole canvas and
\* MaxOff beyond each edge.
Coords(n) == (0..(n - 1)) \cup {-MaxOff, n - 1 + MaxOff, -(n + MaxOff), 2 * n + MaxOff}

MatrixColours == {255, 65281}

InitMatrix ==
    /\ \E d \in MatrixDevices :
          InitDevice(d[1], "rp2", d[2], d[3], d[4], 20, 30, -1, 0, 0, 0, 0)
    /\ inputs = <<>>

XYInputs == Coords(numLEDsX) \X Coords(numLEDsY) \X MatrixColours

NextMatrix ==
    \/ steps < MatSteps /\ \E a \in XYInputs : pixelSetXY(a[1], a[2], a[3])
    \/ steps < MatSteps /\ \E a \in XYInputs : pixelSetXYClip(a[1], a[2], a[3])
    \/ steps < MatSteps /\ \E a \in XYInputs : pixelAddXY(a[1], a[2], a[3])
    \/ steps < MatSteps /\ \E a \in XYInputs : pixelAddXYClip(a[1], a[2], a[3])
    \/ steps < MatSteps /\ \E a \in XYInputs : pixelSetXYNow(a[1], a[2], a[3])
    \/ steps < MatSteps /\ \E a \in XYInputs : getPixelXY(a[1], a[2])
    \/ \E colour \in MatrixColours : pixelsFill(colour)

SpecMatrix == InitMatrix /\ [][NextMatrix]_vars

\* The buffer with slot i replaced by v
Only(old, i, v) == [old EXCEPT ![i] = v]

\* C4: for any integers x and y, pixelSetXY(x,y,colour) writes colour to exactly
\* the one buffer cell remap(x mod numLEDsX, y mod numLEDsY), which is inside
\* [0,numLEDs); the write is never dropped and no other cell changes.
C4_SetXYWraps ==
    call.name = "pixelSetXY" =>
        LET i == remap(call.args[1] % numLEDsX, call.args[2] % numLEDsY)
        IN  /\ call.fault = "none"
            /\ i \in 0..(numLEDs - 1)
            /\ ar[i] = call.args[3]
            /\ ar = Only(pre.ar, i, call.args[3])

C4_Witness ==
    /\ call.name = "pixelSetXY"
    /\ kind = "matrix4x4"
    /\ tiles = 2
    /\ call.args = <<-1, 9, 255>>
    /\ pre.ar[23] = 65281
    /\ ar[23] = 255

\* C5: pixelSetXYClip and pixelAddXYClip leave the whole buffer unmodified
\* whenever (x,y) is off the canvas; for (x,y) on the canvas they modify only the
\* cell remap(x,y).
C5_ClipFrame ==
    call.name \in {"pixelSetXYClip", "pixelAddXYClip"} =>
        LET x == call.args[1]
            y == call.args[2]
        IN  IF OnCanvas(x, y)
            THEN /\ call.fault = "none"
                 /\ \A j \in DOMAIN ar : j # remap(x, y) => ar[j] = pre.ar[j]
                 /\ ar[remap(x, y)] = IF call.name = "pixelSetXYClip"
                                      THEN call.args[3]
                                      ELSE pre.ar[remap(x, y)] + call.args[3]
            ELSE ar = pre.ar

C5_Witness ==
    /\ call.name = "pixelAddXYClip"
    /\ kind = "matrix8x8"
    /\ call.args = <<8, -1, 255>>
    /\ pre.ar = [j \in 0..63 |-> 65281]
    /\ ar = pre.ar

(***************************************************************************)
(* SpecBuffer: the linear setters of a stick.                              *)
(***************************************************************************)
MaxLEDs == 2
BufSteps == 2

BufferColours == {1, 255, 65281, 16711680}

InitBuffer ==
    /\ \E n \in 1..MaxLEDs : InitDevice("stick", "rp2", n, 0, 0, 20, 30, -1, 0, 0, 0, 0)
    /\ inputs = <<>>

\* Indices in range, the negative indices Python wraps, and one beyond each.
Indices == (-(numLEDs + 1))..numLEDs

NextBuffer ==
    \/ steps < BufSteps /\ \E i \in Indices, colour \in BufferColours : pixelSet(i, colour)
    \/ steps < BufSteps /\ \E i \in Indices, colour \in BufferColours : pixelAdd(i, colour)
    \/ steps < BufSteps /\ \E N \in Indices : getPixel(N)
    \/ \E colour \in BufferColours : pixelsFill(colour)

SpecBuffer == InitBuffer /\ [][NextBuffer]_vars

\* C10: pixelAdd(i, colour) replaces entry i by the plain integer sum of its old
\* value and colour, with no per-channel saturation: when a channel's sum
\* exceeds 255 the excess carries into the next higher channel's bit position;
\* every other entry is unchanged.
C10_AddCarries ==
    (call.name = "pixelAdd" /\ call.args[1] \in 0..(numLEDs - 1)) =>
        LET i   == call.args[1]
            old == Channels(pre.ar[i])
            add == Channels(call.args[2])
            new == Channels(ar[i])
            sb  == old[3] + add[3]
            sg  == old[2] + add[2] + (sb \div 256)
            sr  == old[1] + add[1] + (sg \div 256)
        IN  /\ call.fault = "none"
            /\ ar = Only(pre.ar, i, pre.ar[i] + call.args[2])
            /\ new = <<sr % 256, sg % 256, sb % 256>>

C10_Witness ==
    /\ call.name = "pixelAdd"
    /\ call.args = <<1, 65281>>
    /\ pre.ar = (0 :> 255 @@ 1 :> 65281)
    /\ ar = (0 :> 255 @@ 1 :> 130562)
    /\ Channels(ar[1]) = <<1, 254, 2>>

\* C11 as the doc comment of pixelAdd states it: when an addition makes the blue
\* channel's intensity 256, blue is set to zero and the red channel is incremented
\* by 1.
C11_BlueCarriesToRed ==
    (/\ call.name = "pixelAdd"
     /\ call.fault = "none"
     /\ call.args[1] \in 0..(numLEDs - 1)
     /\ Channels(pre.ar[call.args[1]])[3]
           + Channels(call.args[2])[3] = 256) =>
        LET i   == call.args[1]
            old == Channels(pre.ar[i])
            add == Channels(call.args[2])
            new == Channels(ar[i])
        IN  /\ new[3] = 0
            /\ new[1] = old[1] + add[1] + 1

\* C12 as claimed: pixelSet(i, colour) with any i outside [0, numLEDs), above the
\* range or negative, signals an out-of-bounds fault and leaves every buffer entry
\* unchanged.
C12_OutOfRangeFaults ==
    (call.name = "pixelSet" /\ call.args[1] \notin 0..(numLEDs - 1)) =>
        /\ call.fault = "IndexError"
        /\ ar = pre.ar

\* C12, amended: pixelSet(i, colour) with i >= numLEDs or i < -numLEDs signals
\* IndexError and leaves every buffer entry unchanged; with -numLEDs <= i < 0 it
\* signals no fault and writes colour to entry numLEDs + i only.
C12_NegativeIndexWraps ==
    call.name = "pixelSet" =>
        LET i == call.args[1]
        IN  /\ (i >= numLEDs \/ i < -numLEDs) =>
                  (call.fault = "IndexError" /\ ar = pre.ar)
            /\ (i >= -numLEDs /\ i < 0) =>
                  (call.fault = "none" /\ ar = Only(pre.ar, numLEDs + i, call.args[2]))

C12_Witness ==
    /\ call.name = "pixelSet"
    /\ numLEDs = 2
    /\ call.args = <<-1, 255>>
    /\ call.fault = "none"
    /\ pre.ar = (0 :> 65281 @@ 1 :> 65281)
    /\ ar = (0 :> 65281 @@ 1 :> 255)

(***************************************************************************)
(* SpecFlush: drawing on a stick and flushing it, at sampled brightnesses. *)
(***************************************************************************)
FlushSteps == 2

BrightnessValues == {0, 1, 20, 128, 254, 255}

FlushColours ==
    { rgb2GBColour(255, 128, 1), rgb2GBColour(0, 254, 127), rgb2GBColour(1, 0, 255),
      rgb2GBColour(128, 255, 0), rgb2GBColour(254, 1, 128), rgb2GBColour(127, 127, 254) }

InitFlush ==
    /\ \E n \in 1..MaxLEDs, br \in BrightnessValues :
          InitDevice("stick", "rp2", n, 0, 0, br, 30, -1, 0, 1, 0, 0)
    /\ inputs = <<>>

NextFlush ==
    \/ steps < FlushSteps /\ \E i \in 0..(numLEDs - 1), colour \in FlushColours :
                                  pixelSet(i, colour)
    \/ steps < FlushSteps /\ pixelsShow(0, 1)
    \/ steps < FlushSteps /\ \E i \in 0..numLEDs, colour \in FlushColours :
                                  pixelSetNow(i, colour)
    \/ steps < FlushSteps /\ \E colour \in FlushColours : pixelsFillNow(colour)
    \/ steps < FlushSteps /\ blankDisplay
    \/ \E colour \in FlushColours : pixelsFill(colour)

SpecFlush == InitFlush /\ [][NextFlush]_vars

\* The three channels (r, g, b) of entry i of the frame handed to the transport:
\* the rp2 backend hands green, red, blue, the Linux backend red, green, blue.
Handed(i) ==
    LET w == Channels(sent[i])
    IN  IF platform = "rp2" THEN <<w[2], w[1], w[3]>> ELSE w

\* C6 as claimed: on every flush each channel handed to the transport is
\* floor(channel * brightness / 255).
C6_ScaleBy255 ==
    (call.name = "pixelsShow" /\ call.fault = "none" /\ brightness \in 0..255) =>
        \A i \in DOMAIN ar, ch \in 1..3 :
            Handed(i)[ch] = (Channels(ar[i])[ch] * brightness) \div 255

\* C6, amended: on every flush, for every buffer entry and each of its three
\* channels, the value handed to the transport is floor(channel * brightness / 256),
\* for channel values and brightness values in [0,255].
C6_ScaleBy256 ==
    (call.name = "pixelsShow" /\ call.fault = "none" /\ brightness \in 0..255) =>
        \A i \in DOMAIN ar, ch \in 1..3 :
            Handed(i)[ch] = (Channels(ar[i])[ch] * brightness) \div 256

C6_Witness ==
    /\ call.name = "pixelsShow"
    /\ platform = "rp2"
    /\ brightness = 255
    /\ numLEDs = 2
    /\ ar = (0 :> rgb2GBColour(255, 128, 1) @@ 1 :> rgb2GBColour(0, 254, 127))
    /\ Handed(0) = <<254, 127, 0>>
    /\ Handed(1) = <<0, 253, 126>>

\* C7: a flush never changes the pixel buffer or the brightness, and two flushes
\* with no drawing in between hand the transport identical frames.
C7_FlushKeepsBuffer ==
    (call.name = "pixelsShow" /\ call.fault = "none") =>
        /\ ar = pre.ar
        /\ brightness = pre.brightness
        /\ ~pre.dirty => sent = pre.sent

C7_Witness ==
    /\ call.name = "pixelsShow"
    /\ ~pre.dirty
    /\ brightness = 128
    /\ numLEDs = 2
    /\ ar = [i \in 0..1 |-> rgb2GBColour(254, 1, 128)]
    /\ sent = pre.sent
    /\ sent # ar
    /\ Handed(0) = <<127, 0, 64>>

(***************************************************************************)
(* SpecRate: construction with any rate arguments, then flushes, rate      *)
(* updates and pauses of the caller.                                       *)
(***************************************************************************)
RateSteps == 3

\* Milliseconds a flush can spend between its stamp and its push
WorkTimes == {5, 60}

\* Milliseconds __syncWait can lag behind the end of the interval
OverTimes == {0, 1}

\* Milliseconds the caller can spend between two calls
PauseTimes == {30, 150}

RateArgs == {-1, 0, 10, 100}

\* The numbers of frames chaos is asked for
ChaosFrames == {0, 2}

CharRateArgs == {-1, 0, 5}

InitRate ==
    /\ \E k \in {"stick", "rainbow", "triangle", "matrix4x4", "matrix8x8"},
          fps \in RateArgs, cps \in CharRateArgs,
          o1 \in OverTimes, w1 \in WorkTimes, o2 \in OverTimes, w2 \in WorkTimes :
          /\ k # "matrix8x8" => cps = -1
          /\ initFlushes(k) = 1 => o2 = 0 /\ w2 = 5
          /\ InitDevice(k, "rp2", 1, 1, 1, 20, fps, cps, o1, w1, o2, w2)
    /\ inputs = <<>>

NextRate ==
    \/ steps < RateSteps /\ \E over \in OverTimes, work \in WorkTimes : pixelsShow(over, work)
    \/ steps < RateSteps /\ \E fps \in RateArgs : updateRateLimitFPS(fps)
    \/ steps < RateSteps /\ \E cps \in CharRateArgs : updateRateLimitCharactersPerSecond(cps)
    \/ steps < RateSteps /\ \E dt \in PauseTimes : elapse(dt)
    \/ steps < RateSteps /\ \E iters \in ChaosFrames, c \in {1, 16777215} :
                                 chaos(iters, [i \in DOMAIN ar |-> c])

SpecRate == InitRate /\ [][NextRate]_vars

\* C8 as claimed: for any two consecutive flushes with a positive target FPS the
\* time between the two transport pushes is at least the minimum inter-frame
\* interval.  The interval is taken as the code rounds it, 1000 // rateLimit, which
\* is never more than 1000/rateLimit.
C8_PushSpacing ==
    (call.name = "pixelsShow" /\ call.fault = "none" /\ rateLimit > 0 /\ prevPushAt >= 0) =>
        pushAt - prevPushAt >= 1000 \div rateLimit

\* C8, amended: for any two consecutive flushes with a positive target FPS, the
\* second flush's wait ends (lastFrame_ms is stamped) at least 1000 // rateLimit
\* milliseconds after the first flush's stamp, and each push follows its own
\* flush's stamp.
C8_StampSpacing ==
    (call.name = "pixelsShow" /\ call.fault = "none" /\ rateLimit > 0) =>
        /\ lastFrame_ms - pre.lastFrame_ms >= 1000 \div rateLimit
        /\ pushAt >= lastFrame_ms

C8_Witness ==
    /\ call.name = "pixelsShow"
    /\ rateLimit = 10
    /\ pre.rateLimit = 10
    /\ lastFrame_ms - pre.lastFrame_ms = 100
    /\ prevPushAt >= 0
    /\ pushAt - prevPushAt = 45

\* C9: constructing any device with rateLimitFPS <= 0 leaves the rate limit at a
\* positive fallback: 100 for stick, triangle and matrix4x4; for matrix8x8
\* 8*rateLimitCharactersPerSecond when that is positive, else 30.
C9_FallbackRate ==
    (call.name = "__init__" /\ call.args[1] <= 0) =>
        /\ rateLimit > 0
        /\ kind \in {"stick", "triangle", "matrix4x4"} => rateLimit = 100
        /\ kind = "matrix8x8" =>
              rateLimit = IF call.args[2] > 0 THEN 8 * call.args[2] ELSE 30

C9_Witness ==
    /\ call.name = "__init__"
    /\ kind = "matrix8x8"
    /\ call.args = <<0, 5>>
    /\ rateLimit = 40

\* C21 as claimed: after construction and any calls of updateRateLimitFPS,
\* updateRateLimitCharactersPerSecond and pixelsShow with integer arguments the
\* rate limit is positive, so that no flush faults on 1000 // rateLimit and the
\* interval is never negative.
C21_RateStaysPositive ==
    /\ rateLimit > 0
    /\ call.name = "pixelsShow" => call.fault = "none"
    /\ rateLimit # 0 => 1000 \div rateLimit >= 0

(***************************************************************************)
(* SpecDraw: one drawing call on a matrix whose buffer is blank or filled. *)
(***************************************************************************)
\* How far beyond each canvas edge the drawn coordinates reach
DrawOff == 1

MaxRadius == 2

\* The devices drawn on: canvases of 4x4, 8x4 and 8x8
DrawDevices ==
    {<<"matrix4x4", 1, 0, 0>>, <<"matrix4x4", 2, 0, 0>>, <<"matrix8x8", 0, 1, 1>>}

DrawCoords(n) == (-DrawOff)..(n - 1 + DrawOff)

DrawColours == {255}

FillColours == {65281}

InitDraw ==
    /\ \E d \in DrawDevices :
          InitDevice(d[1], "rp2", d[2], d[3], d[4], 20, 30, -1, 0, 1, 0, 1)
    /\ inputs = <<>>

\* No drawing method has been called yet.
Undrawn == call.name \in {"__init__", "pixelsFill"}

BoxInputs ==
    DrawCoords(numLEDsX) \X DrawCoords(numLEDsY) \X DrawCoords(numLEDsX)
        \X DrawCoords(numLEDsY) \X DrawColours

\* What random.randint returns for the drops of rain, as pairs <<x, speed>>:
\* one slow drop, and a fast one beside one that falls off the canvas
RainDraws == {<< <<0, 2>> >>, << <<1, 4>>, <<numLEDsX, 3>> >>}

\* The text of textDemo: one character, a frame of the top and bottom rows
DemoText == << <<129, 129, 129, 129, 129, 129, 129, 129>> >>

NextDraw ==
    \/ Undrawn /\ \E colour \in FillColours : pixelsFill(colour)
    \/ Undrawn /\ \E a \in BoxInputs : drawLine(a[1], a[2], a[3], a[4], a[5])
    \/ Undrawn /\ \E a \in BoxInputs : drawRectangle(a[1], a[2], a[3], a[4], a[5])
    \/ Undrawn /\ \E a \in BoxInputs : drawRectangleFill(a[1], a[2], a[3], a[4], a[5])
    \/ Undrawn /\ \E x0 \in DrawCoords(numLEDsX), y0 \in DrawCoords(numLEDsY),
                     r \in 0..MaxRadius, colour \in DrawColours :
                     drawCircle(x0, y0, r, colour)
    \/ Undrawn /\ \E x0 \in DrawCoords(numLEDsX), y0 \in DrawCoords(numLEDsY),
                     w \in {1, 3}, h \in {-2, 3}, colour \in DrawColours :
                     drawTriangle(x0, y0, x0 + w, y0, x0, y0 + h, colour)
    \/ Undrawn /\ \E iters \in {0, 1} : lineDemo(iters)
    \/ Undrawn /\ \E iters \in {0, 1}, colour \in DrawColours : fireworks(iters, colour, 0, 1)
    \/ Undrawn /\ circularRainbow
    \/ Undrawn /\ \E iters \in {0, 2}, density \in {1, 2}, draws \in RainDraws :
                     rain(iters, density, draws)
    \/ Undrawn /\ \E iters \in {0, 3}, Px \in {0, numLEDsX - 1}, Py \in {1} :
                     bounce(iters, Px, Py)
    \/ Undrawn /\ textDemo(DemoText)

SpecDraw == InitDraw /\ [][NextDraw]_vars

\* The buffer cells that hold colour c
Cells(c) == {i \in DOMAIN ar : ar[i] = c}

Between(v, a, b) == (a <= v /\ v <= b) \/ (b <= v /\ v <= a)

\* C13: drawRectangleFill(x0,y0,x1,y1,colour) with 0 <= x0 <= x1 < numLEDsX and
\* 0 <= y0 <= y1 < numLEDsY sets exactly the (x1-x0+1)*(y1-y0+1) cells with
\* x0<=x<=x1, y0<=y<=y1 to colour and leaves every other cell at its prior value;
\* (0,0,2,2) on a 4x4 grid fills exactly 9 cells.
C13_RectangleFill ==
    call.name = "drawRectangleFill" =>
        LET x0 == call.args[1]
            y0 == call.args[2]
            x1 == call.args[3]
            y1 == call.args[4]
            colour == call.args[5]
            inside == {q \in Canvas : x0 <= q[1] /\ q[1] <= x1 /\ y0 <= q[2] /\ q[2] <= y1}
        IN  (0 <= x0 /\ x0 <= x1 /\ x1 < numLEDsX /\ 0 <= y0 /\ y0 <= y1 /\ y1 < numLEDsY) =>
                /\ call.fault = "none"
                /\ \A q \in Canvas :
                      ar[remap(q[1], q[2])] =
                          IF q \in inside THEN colour ELSE pre.ar[remap(q[1], q[2])]
                /\ Cardinality({remap(q[1], q[2]) : q \in inside})
                      = (x1 - x0 + 1) * (y1 - y0 + 1)
                /\ (numLEDsX = 4 /\ <<x0, y0, x1, y1>> = <<0, 0, 2, 2>>
                      /\ \A i \in DOMAIN ar : pre.ar[i] # colour) =>
                          Cardinality(Cells(colour)) = 9

C13_Witness ==
    /\ call.name = "drawRectangleFill"
    /\ kind = "matrix4x4"
    /\ tiles = 1
    /\ call.args = <<0, 0, 2, 2, 255>>
    /\ \A i \in DOMAIN ar : pre.ar[i] = 65281
    /\ Cells(255) = {0, 1, 2, 4, 5, 6, 8, 9, 10}
    /\ Cells(65281) = {3, 7, 11, 12, 13, 14, 15}

\* The points of the outline of the rectangle with corners (x0,y0) and (x1,y1)
Outline(x0, y0, x1, y1) ==
    {q \in DrawCoords(numLEDsX) \X DrawCoords(numLEDsY) :
        /\ Between(q[1], x0, x1)
        /\ Between(q[2], y0, y1)
        /\ q[1] \in {x0, x1} \/ q[2] \in {y0, y1}}

\* C14 as claimed: drawRectangle writes through the wrapping setter: the part of
\* the outline beyond a canvas edge is drawn wrapped around at the opposite edge.
C14_RectangleWraps ==
    call.name = "drawRectangle" =>
        LET out == Outline(call.args[1], call.args[2], call.args[3], call.args[4])
            hit == {remap(q[1] % numLEDsX, q[2] % numLEDsY) : q \in out}
        IN  \A i \in DOMAIN ar : ar[i] = IF i \in hit THEN call.args[5] ELSE pre.ar[i]

\* C14, amended: drawRectangle is four drawLine calls and writes through the
\* clipped setter: the part of the outline on the canvas is set and the part
\* beyond a canvas edge is dropped, as for drawLine and drawCircle; only
\* drawRectangleFill writes through the wrapping setter, and the part of its
\* region beyond a canvas edge is drawn wrapped around at the opposite edge.
C14_RectangleClips ==
    /\ call.name = "drawRectangle" =>
          LET out == Outline(call.args[1], call.args[2], call.args[3], call.args[4])
              hit == {remap(q[1], q[2]) : q \in out \cap Canvas}
          IN  \A i \in DOMAIN ar : ar[i] = IF i \in hit THEN call.args[5] ELSE pre.ar[i]
    /\ call.name = "drawRectangleFill" =>
          LET region == {q \in DrawCoords(numLEDsX) \X DrawCoords(numLEDsY) :
                            /\ call.args[1] <= q[1] /\ q[1] <= call.args[3]
                            /\ call.args[2] <= q[2] /\ q[2] <= call.args[4]}
              hit == {remap(q[1] % numLEDsX, q[2] % numLEDsY) : q \in region}
          IN  \A i \in DOMAIN ar : ar[i] = IF i \in hit THEN call.args[5] ELSE pre.ar[i]

C14_Witness ==
    /\ call.name = "drawRectangle"
    /\ kind = "matrix4x4"
    /\ tiles = 1
    /\ call.args = <<2, 1, 4, 2, 255>>
    /\ \A i \in DOMAIN ar : pre.ar[i] = 65281
    /\ Cells(255) = {6, 7, 10, 11}

\* C15: drawLine walks max(|x1-x0|,|y1-y0|)+1 points, one per value of the
\* major-axis coordinate, from one endpoint exactly to the other; points on the
\* canvas are set to colour, points off it are dropped and never wrapped; with
\* both endpoints on the canvas both endpoint cells are set and exactly
\* max(|dx|,|dy|)+1 cells are written.
C15_LineWalk ==
    call.name = "drawLine" =>
        LET x0 == call.args[1]
            y0 == call.args[2]
            x1 == call.args[3]
            y1 == call.args[4]
            colour == call.args[5]
            steep == Abs(y1 - y0) > Abs(x1 - x0)
            major == IF steep THEN 2 ELSE 1
            n == (IF steep THEN Abs(y1 - y0) ELSE Abs(x1 - x0)) + 1
            lo == IF steep THEN (IF y0 < y1 THEN y0 ELSE y1) ELSE (IF x0 < x1 THEN x0 ELSE x1)
            pts == LinePoints(x0, y0, x1, y1)
            hit == {remap(pts[k][1], pts[k][2]) :
                       k \in {j \in 1..Len(pts) : OnCanvas(pts[j][1], pts[j][2])}}
        IN  /\ call.fault = "none"
            /\ Len(pts) = n
            /\ \A k \in 1..n : pts[k][major] = lo + k - 1
            /\ {pts[1], pts[n]} = {<<x0, y0>>, <<x1, y1>>}
            /\ \A i \in DOMAIN ar : ar[i] = IF i \in hit THEN colour ELSE pre.ar[i]
            /\ \A q \in Canvas :
                  ar[remap(q[1], q[2])] # pre.ar[remap(q[1], q[2])] =>
                      Between(q[1], x0, x1) /\ Between(q[2], y0, y1)
            /\ (OnCanvas(x0, y0) /\ OnCanvas(x1, y1)) =>
                  /\ ar[remap(x0, y0)] = colour
                  /\ ar[remap(x1, y1)] = colour
                  /\ (\A i \in DOMAIN ar : pre.ar[i] # colour) =>
                        Cardinality(Cells(colour)) = n

C15_Witness ==
    /\ call.name = "drawLine"
    /\ kind = "matrix8x8"
    /\ call.args = <<6, 1, 0, 4, 255>>
    /\ \A i \in DOMAIN ar : pre.ar[i] = 65281
    /\ Cardinality(Cells(255)) = 7
    /\ ar[remap(6, 1)] = 255
    /\ ar[remap(0, 4)] = 255

\* C16: drawCircle(x0,y0,0,colour) completes without fault and touches exactly
\* one distinct pixel, the centre (x0,y0); no pixel at all when the centre is off
\* the canvas.
C16_CircleRadiusZero ==
    (call.name = "drawCircle" /\ call.args[3] = 0) =>
        /\ call.fault = "none"
        /\ ar = IF OnCanvas(call.args[1], call.args[2])
                THEN Only(pre.ar, remap(call.args[1], call.args[2]), call.args[4])
                ELSE pre.ar

C16_Witness ==
    /\ call.name = "drawCircle"
    /\ kind = "matrix4x4"
    /\ tiles = 2
    /\ call.args = <<5, 2, 0, 255>>
    /\ \A i \in DOMAIN ar : pre.ar[i] = 65281
    /\ Cells(255) = {remap(5, 2)}

(***************************************************************************)
(* SpecGraph: a graph object is constructed on a 4x4 matrix or a stick of  *)
(* 4 LEDs, fed and drawn.                                                  *)
(***************************************************************************)
GraphSteps == 4

\* The values graphed on a scale that ends at maxValue: the scale 0 .. 4 has
\* a binary fraction for m; on 0 .. 49 and -1 .. 17 m is a rounded quotient
\* and some of these values scale to another cell than the exact quotient
GraphValues(maxValue) ==
    CASE maxValue = 4 -> {-1, 0, 1, 2, 4, 5}
      [] maxValue = 49 -> {24, 49}
      [] OTHER -> {5, 14, 17}

Directions == {"Up", "Down", "Left", "Right"}

DirectionArgs == Directions \cup {"Sideways"}

ColourMapArgs == {"Solid", "Rainbow", "Heat"}

InitGraph ==
    /\ \/ InitDevice("matrix4x4", "rp2", 1, 0, 0, 20, 30, -1, 0, 1, 0, 1)
       \/ InitDevice("stick", "rp2", 4, 0, 0, 20, 30, -1, 0, 1, 0, 1)
    /\ inputs = <<>>

\* The caller constructs one graph object, first.
Graphless == graph = NoGraph /\ steps < GraphSteps

Graphed == graph # NoGraph /\ steps < GraphSteps

NextGraph ==
    \/ \E colour \in FillColours : pixelsFill(colour)
    \/ Graphless /\ \E o \in {<<0, 3>>, <<1, 0>>}, length \in {1, 4},
                       direction \in DirectionArgs, colourMap \in ColourMapArgs,
                       update \in BOOLEAN, maxValue \in {4, 49} :
                       graph1D(o[1], o[2], length, direction, 0, maxValue, 255, colourMap,
                               update)
    \/ Graphless /\ \E ix \in {<<0, 3>>, <<1, 1>>, <<0, 4>>},
                       colourMap \in ColourMapArgs, update \in BOOLEAN,
                       scale \in {<<0, 4>>, <<-1, 17>>, <<4, 4>>} :
                       stickGraph1D(scale[1], scale[2], ix[1], ix[2], 255, colourMap, update)
    \/ Graphless /\ \E width \in {2, 4}, height \in {1, 4},
                       colourMap \in ColourMapArgs, update \in BOOLEAN, bars \in BOOLEAN,
                       scale \in {<<0, 4>>, <<-1, 17>>} :
                       graph2D(scale[1], scale[2], 0, 3, width, height, 255, 127, colourMap,
                               update, bars)
    \/ Graphed /\ \E value \in GraphValues(graph.maxValue) : addData(value)
    \/ Graphed /\ \E value \in GraphValues(graph.maxValue) : updateGraph1D(value)
    \/ Graphed /\ \E value \in GraphValues(graph.maxValue) : stickUpdateGraph1D(value)
    \/ Graphed /\ updateGraph2D

SpecGraph == InitGraph /\ [][NextGraph]_vars

\* C18 as claimed: a matrix graph1D constructed with an unrecognised direction
\* falls back to the announced default "Up": every updateGraph1D on it writes the
\* same cells with the same colours as a graph built with direction="Up" and
\* otherwise equal parameters.
C18_FallbackIsUp ==
    (/\ call.name = "updateGraph1D"
     /\ graph.direction \notin Directions
     /\ graph.colourMap # "unset") =>
        LET up   == [graph EXCEPT !.orientation = 1, !.inc = -1]
            want == RunPlan(pre.ar, Graph1DPlan(up, call.args[1]), 1)
        IN  /\ ar = want.ar
            /\ want.fault = "none" => call.fault = "none"

\* C19 as claimed: a graph object constructed with a colourMap that is neither
\* callable nor "Solid"/"Rainbow" is recovered with a default colour map: every
\* later updateGraph call on it completes without a fault.
C19_ColourMapRecovered ==
    (/\ call.name \in {"updateGraph1D", "stick.updateGraph1D", "updateGraph2D"}
     /\ graph.colourMap = "unset") =>
        call.fault = "none"

\* C22 as claimed: updateGraph2D on a graph2D with bars=False and a bound colour
\* map plots a line: for every stored value whose scaled row y lies inside the
\* graph area (originY-height < y <= originY) the pixel (x, y), x running
\* leftwards from originX+width-1 for the newest value, is written and so differs
\* from the background.
C22_LinePlotted ==
    (/\ call.name = "updateGraph2D"
     /\ ~graph.bars
     /\ graph.colourMap # "unset") =>
        \A d \in DOMAIN graph.data :
            LET x == graph.originX + graph.width - d
                y == Graph2DRow(graph, graph.data[d])
            IN  (y > graph.originY - graph.height /\ y <= graph.originY) =>
                    ar[remap(x, y)] # graph.bgColour

(***************************************************************************)
(* SpecPulse: pulses are added to a stick of 3 LEDs and updatePulses is    *)
(* called again and again.                                                 *)
(***************************************************************************)
\* The number of addPulse calls
PulseSteps == 2

PulseSpeeds == {-100, 0, 50, 250}

\* The colour lists and colour maps of the pulses: a plain colour, the demo's
\* mapped head before a plain colour, and a mapped colour under each named map
PulseLooks == {<<<<255>>, "None">>, <<<<-1, 65280>>, "Rainbow">>,
               <<<<-1, 65280>>, "None">>, <<<<-1>>, "Solid">>}

\* The colours given to addPulse as a number instead of a list
PulseColours == {255, -1}

\* The farthest a pulse is followed, in hundredths of a pixel
MaxPosition == 1200

\* No pulse has gone farther than the behaviours follow it.
PulsesFollowed == \A k \in DOMAIN pulses : Abs(pulses[k].position) <= MaxPosition

InitPulse ==
    /\ InitDevice("stick", "rp2", 3, 0, 0, 20, 30, -1, 0, 1, 0, 1)
    /\ inputs = <<>>

NextPulse ==
    \/ steps < PulseSteps /\ \E speed \in PulseSpeeds, index \in {0, numLEDs},
                                look \in PulseLooks :
                                addPulse(speed, look[1], TRUE, index, look[2])
    \/ steps < PulseSteps /\ \E speed \in PulseSpeeds, index \in {0, numLEDs},
                                colour \in PulseColours :
                                addPulse(speed, colour, FALSE, index, "Solid")
    \/ PulsesFollowed /\ updatePulses

\* The caller keeps calling updatePulses.
SpecPulse == InitPulse /\ [][NextPulse]_vars /\ WF_vars(PulsesFollowed /\ updatePulses)

\* The pulse object id is in the list.
Listed(id) == \E k \in DOMAIN pulses : pulses[k].id = id

\* Some pixel of p, index-len(colour)+1 .. index, is on the stick.
OnStick(p) == \E i \in (p.index - Len(p.colour) + 1)..p.index : 0 <= i /\ i < numLEDs

Exited(p) == p.index - Len(p.colour) >= numLEDs \/ p.index + Len(p.colour) < 0

\* After an updatePulses call: a pulse that was moved and is no longer listed
\* has, at the index it was moved to, no pixel on the stick; and no listed pulse
\* satisfies the exit condition.
PulsesSwept ==
    call.name = "updatePulses" =>
        /\ \A k \in DOMAIN pre.pulses :
               ~Listed(pre.pulses[k].id) => ~OnStick(pulseUpdate(pre.pulses[k]))
        /\ \A k \in DOMAIN pulses : ~Exited(pulses[k])

\* C20 as claimed: under repeated updatePulses calls every pulse with non-zero
\* speed is eventually removed from the list, no pulse is removed while one of
\* its pixels is on the stick, and after each updatePulses call no pulse
\* satisfying the exit condition remains in the list.
C20_PulsesLeave ==
    /\ []PulsesSwept
    /\ \A id \in 1..PulseSteps :
           (\E k \in DOMAIN pulses : pulses[k].id = id /\ pulses[k].speed # 0)
               ~> ~Listed(id)

(***************************************************************************)
(* SpecSlice: slices of a stick are filled, over a blank or a filled       *)
(* buffer.                                                                 *)
(***************************************************************************)
\* The longest stick
SliceLEDs == 3

\* The number of fillSlice calls
SliceSteps == 2

SliceColours == {255, 16711680}

\* The largest number of triangles
SliceTris == 2

SliceAngles == {-15, 0, 14, 30, 45}

RainbowOffsets == {0, 1, 254}

InitSlice ==
    /\ \/ \E n \in 1..SliceLEDs : InitDevice("stick", "rp2", n, 0, 0, 20, 30, -1, 0, 1, 0, 1)
       \/ \E n \in 1..SliceLEDs : InitDevice("rainbow", "rp2", n, 0, 0, 40, 60, -1, 0, 1, 0, 1)
       \/ \E n \in 1..SliceTris : InitDevice("triangle", "rp2", n, 0, 0, 20, -1, -1, 0, 1, 0, 1)
    /\ inputs = <<>>

NextSlice ==
    \/ \E colour \in FillColours : pixelsFill(colour)
    \/ steps < SliceSteps /\ \E i \in (-1)..(numLEDs + 1), j \in (-1)..numLEDs,
                                colour \in SliceColours : fillSlice(i, j, colour)
    \/ steps < SliceSteps /\ \E tri \in (-1)..SliceTris, colour \in SliceColours : fillTri(tri, colour)
    \/ steps < SliceSteps /\ \E angle \in SliceAngles, colour \in SliceColours : pixelSetAngle(angle, colour)
    \/ steps < SliceSteps /\ \E offset \in RainbowOffsets : drawRainbow(offset)
    \/ steps < SliceSteps /\ sliceDemo
    \/ steps < SliceSteps /\ \E iters \in {0, 5, 9} : pulseDemo(iters)
    \/ steps < SliceSteps /\ \E iters \in {0, 1} : graphDemo(iters)
    \/ steps < SliceSteps /\ \E frames \in 0..2, at \in RainbowStops, k \in 0..numLEDs :
                                rainbowLoop(frames, at, k)

SpecSlice == InitSlice /\ [][NextSlice]_vars

\* C23 as claimed: fillSlice(i, j, colour), for LEDs of the stick, sets exactly
\* the LEDs i..j to colour and leaves the others as they were, and with the
\* default j = -1 it fills from i to the last LED; in both cases it returns
\* without a fault.
C23_SliceFilled ==
    LET i    == call.args[1]
        j    == call.args[2]
        last == IF j = -1 THEN numLEDs - 1 ELSE j
    IN  (call.name = "fillSlice" /\ 0 <= i /\ last < numLEDs) =>
            /\ call.fault = "none"
            /\ \A k \in DOMAIN ar :
                   ar[k] = IF i <= k /\ k <= last THEN call.args[3] ELSE pre.ar[k]

(***************************************************************************)
(* SpecText: text drawn and scrolled on a matrix8x8 of one or two tiles.   *)
(***************************************************************************)
\* The calls made on the matrix: enough for a character to cross one tile
TextSteps == 18

\* The most lines scrolling at once, which is also the number of addTextScroll
\* calls
MaxLines == 2

\* The tilings written on: <<tileRows, tileCols>>
TextTilings == {<<1, 1>>, <<1, 2>>, <<2, 1>>}

\* Characters, as column bytes: a frame of the top and bottom rows, a diagonal
\* and a full block
Glyphs == {<<129, 129, 129, 129, 129, 129, 129, 129>>, <<1, 2, 4, 8, 16, 32, 64, 128>>,
           <<255, 255, 255, 255, 255, 255, 255, 255>>}

Strings == {<<g>> : g \in Glyphs} \cup {<<g, g>> : g \in Glyphs}

TextColours == {255}

\* The lines scrolled: <<string, y, x, bgColour>>, the second starting with its
\* first column on the canvas
TextLines ==
    {<<<< <<129, 129, 129, 129, 129, 129, 129, 129>> >>, 0, 0, 0>>,
     <<<< <<1, 2, 4, 8, 16, 32, 64, 128>>, <<255, 255, 255, 255, 255, 255, 255, 255>> >>,
       1, -numLEDsX - 7, 65281>>}

\* Some line scrolls and none has been carried past its end, as a line is when
\* a later line of the list raises in every round.
Scrolling ==
    /\ scroll.list # <<>>
    /\ \A k \in DOMAIN scroll.list : scroll.list[k].x < 8 * Len(scroll.list[k].string)

InitText ==
    /\ \E t \in TextTilings : InitDevice("matrix8x8", "rp2", 0, t[1], t[2], 20, 30, -1, 0, 1, 0, 1)
    /\ inputs = <<>>

NextText ==
    \/ Undrawn /\ \E colour \in FillColours : pixelsFill(colour)
    \/ Undrawn /\ \E glyph \in Glyphs, Px \in {-8, -7, -3, 0, 3, numLEDsX, numLEDsX + 1},
                     Py \in {-1, 0, 1, numLEDsY - 8}, colour \in TextColours :
                     drawChar(glyph, Px, Py, colour)
    \/ Undrawn /\ \E string \in Strings, x \in {-1, 0, 2}, y \in {0, 1}, colour \in TextColours :
                     printTextWrap(string, x, y, colour)
    \/ /\ steps < MaxLines
       /\ Undrawn \/ call.name = "addTextScroll"
       /\ \E l \in TextLines, update \in BOOLEAN, blocking \in BOOLEAN :
             addTextScroll(l[1], l[2], l[3], 255, l[4], update, blocking)
    \/ steps < TextSteps /\ (Undrawn \/ Scrolling) /\ updateTextScroll
    \/ Undrawn /\ \E string \in Strings : textDemo(string)

SpecText == InitText /\ [][NextText]_vars

====
